---- MODULE Spec2Model ----
(***************************************************************************)
(* State-machine model of the NATS web client:                             *)
(*   - the message log pipeline of ui.js (pause flag, msgBuffer, the       *)
(*     flushBuffer render loop on requestAnimationFrame / setTimeout, the  *)
(*     log history),                                                       *)
(*   - the connection and subscription registry of nats-client.js,         *)
(*   - the KV bucket watcher (handleKvBucketChange / watchKvBucket).       *)
(* Every handler of the program is one action; the browser's event loop    *)
(* runs one handler (or one continuation of an async handler) at a time.   *)
(***************************************************************************)
EXTENDS Integers, Sequences, FiniteSets, TLC

\* ------------------------------------------------------------------------
\* Program constants
\* ------------------------------------------------------------------------

\* msgBuffer.splice(0, 50): events taken by one flushBuffer
BATCH_SIZE == 50

\* while (els.messages.children.length > 200): ceiling of rendered entries
MAX_RENDERED == 200

\* const MAX_LOG_HISTORY = 1000
MAX_LOG_HISTORY == 1000

\* ------------------------------------------------------------------------
\* Bounds of the model
\* ------------------------------------------------------------------------

\* deliveries in Spec: runs of a subscription's for-await loop and
\* request/reply responses
MaxDeliveries == 2

\* deliveries in SpecCeiling, enough to pass MAX_RENDERED rendered entries
MaxCeilingDeliveries == 4

\* deliveries in SpecLive
MaxLiveDeliveries == 1

\* flushBuffer callbacks (paint + timer) the host is allowed to hold
MaxPending == 2

\* small burst: events one delivery pushes when the backlog stays small
SmallBurst == 2

NULL == 0

\* a delivery pushes either a few events or one more than a batch
BurstSizes == {SmallBurst, BATCH_SIZE + 1}

VARIABLES
  \* ---- ui.js: log pause & buffer
  isPaused,        \* let isPaused
  msgBuffer,       \* let msgBuffer: sequence of events, oldest first
  renderLoopId,    \* let renderLoopId: NULL or the id of a requested frame
  logHistory,      \* const logHistory: sequence of entries, oldest first
  messages,        \* els.messages.children, firstChild first
  \* ---- host (browser event loop)
  rafPending,      \* ids of requestAnimationFrame(flushBuffer) not yet run
  timerPending,    \* number of setTimeout(flushBuffer, 0) not yet run
  \* ---- nats-client.js
  nc,              \* "null" | "open" | "closing" | "closed"
  subCounter,      \* let subCounter
  subscriptions,   \* const subscriptions: the set of registered ids
  kv,              \* let kv: the open bucket, or "none"
  activeKvWatcher, \* let activeKvWatcher: NULL or a watcher
  \* ---- main.js: appState
  kvKeys,          \* appState.kvKeys
  currentKvBucket, \* appState.currentKvBucket, or "none"
  currentKvWatcher,\* appState.currentKvWatcher: NULL or a watcher
  \* ---- environment of the KV handlers
  watchers,        \* the iterators kv.watch() returned: [bucket, active]
  calls,           \* the handleKvBucketChange calls: [bucket, pc]
  \* ---- history of the run (not program state)
  nextEvent,       \* id of the next event the environment produces
  deliveries,      \* deliveries and replies rendered so far
  pausedPushes,    \* events passed to renderMessage while isPaused
  discarded,       \* ids of events thrown away by stopRenderLoop
  shown,           \* ids handed to els.messages since it was last emptied
  loopStopped,     \* stopRenderLoop ran and startRenderLoop has not since
  flushRan,        \* the step just taken was a flushBuffer callback
  issued,          \* [id, session] of every id subscribe returned, in order
  session,         \* number of resets of subCounter by disconnect()
  lastOpSinceOpen, \* per key: last operation seen since handleKvBucketChange
  lastOpSinceReset,\* per key: last operation seen since kvKeys was emptied
  kvKeyList,       \* els.kvKeyList: the keys of its .kv-key children
  kvEvents,        \* the last two change events since kvKeys was emptied
  \* ---- stream message view (main.js, nats-client.js)
  missing,         \* the sequence positions of the stream without a message
  viewPc,          \* handleStreamViewMessages: "idle" or "loading"
  reads,           \* per position of the call: "pending", "ok" or "failed"
  streamView,      \* what the message container shows after the last call
  rangeArgs,       \* history: startSeq and endSeq of the last call
  snapshot,        \* history: the value of missing when the call started
  outOfOrder,      \* history: a read completed before a read of a lower position
  \* ---- outcomes of the last calls
  exported,        \* what the last downloadLogs() produced
  subscribeResult, \* how the last subscribe() ended
  unsubscribeResult,\* how the last unsubscribe(id) ended
  \* ---- the subscription handles of the client library
  closedSubs,      \* positions of issued whose sub.unsubscribe() took effect
  \* ---- history of the forwarding tasks
  returned,        \* positions of issued whose unsubscribe(id) has returned
  forwarded,       \* [id, sub] of every event a forwarding task handled
  latePushes,      \* [id, sub] of the events handled after that return
  \* ---- request/reply (main.js handleRequest)
  btnReqDisabled,  \* els.btnReq.disabled
  pendingRequest,  \* the nats.request() being awaited, or NoRequest
  toast,           \* the last error toast of handleRequest
  \* ---- history of the render loop
  rendered,        \* ids handed to els.messages, in order, never emptied
  \* ---- payloads of the stream messages
  binary,          \* the sequence positions whose payload is not UTF-8 text
  viewData,        \* per entry of the last result: its data and its payload
  \* ---- connections (main.js handleConnect, nats-client.js connectToNats)
  conns,           \* the connections wsconnect() returned: their state
  ncRef,           \* let nc: NULL or the position in conns it refers to
  connCalls,       \* the handleConnect calls being awaited: [pc, conn]
  connStarted,     \* history: handleConnect calls so far
  autoConnect,     \* the timer of handleUrlParameters: "none", "pending", "fired"
  btnConnectDisabled, \* els.btnConnect.disabled
  statusText,      \* els.statusText.innerText
  \* ---- KV key editor (main.js selectKeyWrapper, handleKvPut)
  kvKeyInput,      \* els.kvKeyInput.value, or "none"
  kvValueInput,    \* els.kvValueInput.value
  keyReads,        \* the selectKeyWrapper calls being awaited: [key, pc]
  kvStore,         \* the bucket: the value stored under each key
  readResult,      \* history: per key, what its last finished read gave
  keySelects,      \* history: selectKeyWrapper calls so far
  \* ---- KV handle and JetStream manager (nats-client.js)
  jsm,             \* let jsm: "none" or "set"
  handleCalls,     \* openKvBucket / getJsm calls being awaited
  connEpoch,       \* history: connections opened so far
  kvEpoch,         \* history: the connection kv was obtained on
  jsmEpoch         \* history: the connection jsm was obtained on

uiVars   == <<isPaused, msgBuffer, renderLoopId, logHistory, messages,
             rafPending, timerPending>>
natsVars == <<nc, subCounter, subscriptions>>
kvVars   == <<kv, activeKvWatcher, kvKeys, currentKvBucket,
             currentKvWatcher, watchers, calls, lastOpSinceOpen,
             lastOpSinceReset, kvKeyList, kvEvents>>
histVars == <<nextEvent, deliveries, pausedPushes, discarded, shown,
             loopStopped, flushRan, issued, session>>
streamVars == <<missing, viewPc, reads, streamView, rangeArgs, snapshot,
               outOfOrder>>
fwdVars == <<forwarded, latePushes>>
regVars == <<unsubscribeResult, closedSubs, returned, fwdVars>>
connVars == <<conns, ncRef, connCalls, connStarted, autoConnect,
              btnConnectDisabled, statusText>>
\* the state of the handlers described after request/reply
keyVars == <<kvKeyInput, kvValueInput, keyReads, kvStore, readResult,
             keySelects>>
handleVars == <<jsm, handleCalls, connEpoch, kvEpoch, jsmEpoch>>
lastVars == <<connVars, keyVars, handleVars>>
reqVars == <<btnReqDisabled, pendingRequest, toast, lastVars>>
payloadVars == <<binary, viewData>>
tailVars == <<reqVars, rendered, payloadVars>>
afterStreamVars == <<exported, subscribeResult, regVars, tailVars>>
laterVars == <<streamVars, afterStreamVars>>
\* laterVars without the history of the render loop
callVars == <<streamVars, exported, subscribeResult, regVars, reqVars,
              payloadVars>>
\* afterStreamVars without the entries of the last result
nonViewVars == <<exported, subscribeResult, regVars, reqVars, rendered,
                 binary>>
vars     == <<uiVars, natsVars, kvVars, histVars, laterVars>>

\* ------------------------------------------------------------------------
\* Helpers
\* ------------------------------------------------------------------------

Min(a, b) == IF a < b THEN a ELSE b

Range(s) == {s[i] : i \in 1..Len(s)}

Reverse(s) == [i \in 1..Len(s) |-> s[Len(s) + 1 - i]]

Ids(s) == [i \in 1..Len(s) |-> s[i].id]

\* ------------------------------------------------------------------------
\* ui.js as functions of the module state
\* ------------------------------------------------------------------------

\* the module-level state of ui.js together with the host's callback queues
UiState ==
  [isPaused |-> isPaused, msgBuffer |-> msgBuffer,
   renderLoopId |-> renderLoopId, logHistory |-> logHistory,
   messages |-> messages, rafPending |-> rafPending,
   timerPending |-> timerPending]

PendingCount(s) == Cardinality(s.rafPending) + s.timerPending

\* requestAnimationFrame returns an id no pending request and no holder has;
\* ids are only ever compared for equality, so the least free one is taken
requestAnimationFrame(s) ==
  CHOOSE id \in 1..(MaxPending + 3) :
    /\ id \notin s.rafPending \cup {s.renderLoopId}
    /\ \A j \in 1..(id - 1) : j \in s.rafPending \cup {s.renderLoopId}

\* cancelAnimationFrame(id): a request that already ran is left alone
cancelAnimationFrame(pending, id) == pending \ {id}

\* logHistory.push(entry); if (length > MAX_LOG_HISTORY) shift()
\* a payload as received: its text, the first character of the trimmed
\* text ("{", "[" or "other") and what JSON.parse makes of it, written as
\* JSON.stringify writes that value ("none" if JSON.parse throws)
PlainText == [raw |-> "hello", first |-> "other", parsed |-> "none"]

Payloads ==
  { PlainText,
    [raw |-> "{\"a\":1}", first |-> "{", parsed |-> "{\"a\":1}"],
    [raw |-> "{\"a\":1,\"a\":2}", first |-> "{", parsed |-> "{\"a\":2}"],
    [raw |-> "{oops", first |-> "{", parsed |-> "none"],
    [raw |-> "5", first |-> "other", parsed |-> "5"] }

Subjects == {"s1", "s2"}

\* mutant: every payload that is JSON text is parsed
tryParsePayloadAnyJson(rawData) ==
  IF rawData.parsed # "none"
  THEN [isJson |-> TRUE, value |-> rawData.parsed]
  ELSE [isJson |-> FALSE, value |-> rawData.raw]

\* tryParsePayload: the parsed value for text that starts with { or [ and
\* parses, the text itself otherwise
tryParsePayload(rawData) ==
  IF rawData.first \in {"{", "["} /\ rawData.parsed # "none"
  THEN [isJson |-> TRUE, value |-> rawData.parsed]
  ELSE [isJson |-> FALSE, value |-> rawData.raw]

\* const entry = { timestamp, type, subject, headers, payload }; id and
\* received are labels of the history: which event the entry records
LogEntry(ev) ==
  [id |-> ev.id,
   type |-> IF ev.isRpc THEN "RPC" ELSE "MSG",
   subject |-> ev.subject,
   payload |-> tryParsePayload(ev.data),
   received |-> ev]

\* mutant: on overflow the entry just pushed is dropped
addToLogHistoryDropNewest(log, ev) ==
  IF Len(log) >= MAX_LOG_HISTORY THEN log
  ELSE Append(log, LogEntry(ev))

addToLogHistory(log, ev) ==
  LET pushed == Append(log, LogEntry(ev))
  IN  IF Len(pushed) > MAX_LOG_HISTORY THEN Tail(pushed) ELSE pushed

\* mutant: the ceiling removes firstChild instead of lastChild
TrimRenderedFirstChild(list) ==
  IF Len(list) > MAX_RENDERED
  THEN SubSeq(list, Len(list) - MAX_RENDERED + 1, Len(list))
  ELSE list

\* while (children.length > 200) removeChild(lastChild)
TrimRendered(list) ==
  IF Len(list) > MAX_RENDERED THEN SubSeq(list, 1, MAX_RENDERED) ELSE list

\* mutant: the fragment is built from batch[0] up to batch[len-1]
PrependBatchForward(list, batch) ==
  IF Len(batch \o list) > MAX_RENDERED
  THEN SubSeq(batch \o list, 1, MAX_RENDERED)
  ELSE batch \o list

\* the batch loop of flushBuffer: fragment built from batch[len-1] down to
\* batch[0], prepended to the container, then the container is trimmed
PrependBatch(list, batch) == TrimRendered(Reverse(batch) \o list)

\* mutant: splice(0) takes the whole buffer and renders its first 50
SpliceRestEmpty(buf) == <<>>

\* mutant: the batch reaches one event into what stays in the buffer
SpliceBatchOverlap(buf) == SubSeq(buf, 1, Min(BATCH_SIZE + 1, Len(buf)))

\* msgBuffer.splice(0, 50)
SpliceBatch(buf) == SubSeq(buf, 1, Min(BATCH_SIZE, Len(buf)))
SpliceRest(buf)  == SubSeq(buf, Min(BATCH_SIZE, Len(buf)) + 1, Len(buf))

\* mutant: a backlog left in the buffer requests no zero-delay timer
RescheduleNoTimer(s) ==
  IF Len(s.msgBuffer) > 0
  THEN s
  ELSE [s EXCEPT !.renderLoopId = (CHOOSE id \in 1..(MaxPending + 3) :
                                     id \notin s.rafPending \cup {s.renderLoopId}),
                 !.rafPending = @ \cup {CHOOSE id \in 1..(MaxPending + 3) :
                                     id \notin s.rafPending \cup {s.renderLoopId}}]

\* mutant: a backlog requests the timer and the paint callback
RescheduleBoth(s) ==
  LET id == requestAnimationFrame(s)
  IN  IF Len(s.msgBuffer) > 0
      THEN [s EXCEPT !.timerPending = @ + 1, !.renderLoopId = id,
                     !.rafPending = @ \cup {id}]
      ELSE [s EXCEPT !.renderLoopId = id, !.rafPending = @ \cup {id}]

\* the rescheduling tail of flushBuffer
Reschedule(s) ==
  IF Len(s.msgBuffer) > 0
  THEN [s EXCEPT !.timerPending = @ + 1]
  ELSE LET id == requestAnimationFrame(s)
       IN  [s EXCEPT !.renderLoopId = id, !.rafPending = @ \cup {id}]

flushBuffer(s) ==
  LET drained ==
        IF Len(s.msgBuffer) > 0
        THEN [s EXCEPT !.messages = PrependBatch(@, SpliceBatch(s.msgBuffer)),
                       !.msgBuffer = SpliceRest(s.msgBuffer)]
        ELSE s
  IN  Reschedule(drained)

startRenderLoop(s) ==
  IF s.renderLoopId = NULL THEN flushBuffer(s) ELSE s

\* mutant: the buffer survives the stop
stopRenderLoopKeepBuffer(s) ==
  [s EXCEPT !.rafPending = cancelAnimationFrame(@, s.renderLoopId),
            !.renderLoopId = NULL]

\* mutant: stopping the render loop also empties the history
stopRenderLoopClearsHistory(s) ==
  [stopRenderLoopKeepBuffer(s) EXCEPT !.msgBuffer = <<>>, !.logHistory = <<>>]

stopRenderLoop(s) ==
  LET cancelled ==
        IF s.renderLoopId # NULL
        THEN [s EXCEPT !.rafPending = cancelAnimationFrame(@, s.renderLoopId),
                       !.renderLoopId = NULL]
        ELSE s
  IN  [cancelled EXCEPT !.msgBuffer = <<>>]

clearLogs(s) ==
  LET restarted == startRenderLoop(stopRenderLoop([s EXCEPT !.logHistory = <<>>]))
  IN  [restarted EXCEPT !.messages = <<>>]

toggleLogPause(s) == [s EXCEPT !.isPaused = ~@]

\* mutant: the event is put in front of the buffer and of the history
renderMessageUnshift(s, ev) ==
  IF s.isPaused /\ ~ev.isRpc
  THEN s
  ELSE [s EXCEPT !.logHistory = <<LogEntry(ev)>> \o @,
                 !.msgBuffer = <<ev>> \o @]

\* mutant: the history records what the pause keeps out of the buffer
renderMessageRecordAll(s, ev) ==
  IF s.isPaused /\ ~ev.isRpc
  THEN [s EXCEPT !.logHistory = addToLogHistory(@, ev)]
  ELSE [s EXCEPT !.logHistory = addToLogHistory(@, ev),
                 !.msgBuffer = Append(@, ev)]

\* mutant: renderMessage without the pause check
renderMessageNoPause(s, ev) ==
  [s EXCEPT !.logHistory = Append(@, [id |-> ev.id, type |-> IF ev.isRpc THEN "RPC" ELSE "MSG"]),
            !.msgBuffer = Append(@, ev)]

\* mutant: the pause also keeps replies out
renderMessagePauseAll(s, ev) ==
  IF s.isPaused
  THEN s
  ELSE [s EXCEPT !.logHistory = addToLogHistory(@, ev),
                 !.msgBuffer = Append(@, ev)]

renderMessage(s, ev) ==
  IF s.isPaused /\ ~ev.isRpc
  THEN s
  ELSE [s EXCEPT !.logHistory = addToLogHistory(@, ev),
                 !.msgBuffer = Append(@, ev)]

\* renderMessage for each event of a sequence, in order; the sequence is
\* split in halves and each half's result is taken as a value, which keeps
\* the evaluation shallow
RECURSIVE renderAll(_, _)
renderAll(s, evs) ==
  IF Len(evs) = 0 THEN s
  ELSE IF Len(evs) = 1 THEN renderMessage(s, evs[1])
  ELSE LET half == Len(evs) \div 2
       IN  CHOOSE out \in
             { renderAll(mid, SubSeq(evs, half + 1, Len(evs))) :
                 mid \in { renderAll(s, SubSeq(evs, 1, half)) } } : TRUE

\* the new state of ui.js and of the host's callback queues
Install(s) ==
  /\ isPaused' = s.isPaused
  /\ msgBuffer' = s.msgBuffer
  /\ renderLoopId' = s.renderLoopId
  /\ logHistory' = s.logHistory
  /\ messages' = s.messages
  /\ rafPending' = s.rafPending
  /\ timerPending' = s.timerPending

\* ------------------------------------------------------------------------
\* KV bucket watcher: nats-client.js and the handlers of main.js
\* ------------------------------------------------------------------------

Keys == {"k1", "k2"}

Buckets == {"b1", "b2"}

\* operations of a KV change feed; every one but DEL and PURGE is add-like
Operations == {"PUT", "DEL", "PURGE"}

NoOps == [k \in Keys |-> "none"]

\* iter.stop(): the iterator delivers nothing from now on
StopWatcher(ws, w) ==
  IF w = NULL THEN ws ELSE [ws EXCEPT ![w].active = FALSE]

\* the iterators that are delivering change events
ActiveWatchers == {w \in 1..Len(watchers) : watchers[w].active}

\* the last two elements of a sequence
LastTwo(s) == IF Len(s) <= 2 THEN s ELSE SubSeq(s, Len(s) - 1, Len(s))

\* ui.addKvKey: no second element for an id that is in the document
addKvKey(list, key) ==
  IF \E i \in 1..Len(list) : list[i] = key THEN list ELSE Append(list, key)

\* ui.removeKvKey: removes the element if there is one
removeKvKey(list, key) == SelectSeq(list, LAMBDA x : x # key)

\* the key list of the document after the watch callback
onKeyChangeList(keys, list, key, op) ==
  IF op = "DEL" \/ op = "PURGE"
  THEN removeKvKey(list, key)
  ELSE IF key \notin keys THEN addKvKey(list, key) ELSE list

\* mutant: every add-like event is signalled to the key list
addedNotificationsNoHas(keys, key, op) ==
  IF op = "DEL" \/ op = "PURGE" THEN 0 ELSE 1

\* the number of ui.addKvKey calls the watch callback makes for one event
addedNotifications(keys, key, op) ==
  IF op = "DEL" \/ op = "PURGE" THEN 0
  ELSE IF key \notin keys THEN 1 ELSE 0

\* mutant: DEL is taken for an add-like operation
onKeyChangePurgeOnly(keys, key, op) ==
  IF op = "PURGE" THEN keys \ {key} ELSE keys \cup {key}

\* the callback handleKvBucketChange gives to watchKvBucket
onKeyChange(keys, key, op) ==
  IF op = "DEL" \/ op = "PURGE"
  THEN keys \ {key}
  ELSE IF key \notin keys THEN keys \cup {key} ELSE keys

\* ------------------------------------------------------------------------
\* Initial state: module initialisers of ui.js, nats-client.js and main.js
\* ------------------------------------------------------------------------

Init ==
  /\ isPaused = FALSE
  /\ msgBuffer = <<>>
  /\ renderLoopId = NULL
  /\ logHistory = <<>>
  /\ messages = <<>>
  /\ rafPending = {}
  /\ timerPending = 0
  /\ nc = "null"
  /\ subCounter = 0
  /\ subscriptions = {}
  /\ nextEvent = 1
  /\ deliveries = 0
  /\ pausedPushes = {}
  /\ discarded = {}
  /\ shown = <<>>
  /\ loopStopped = FALSE
  /\ flushRan = FALSE
  /\ issued = <<>>
  /\ session = 0
  /\ kv = "none"
  /\ activeKvWatcher = NULL
  /\ kvKeys = {}
  /\ currentKvBucket = "none"
  /\ currentKvWatcher = NULL
  /\ watchers = <<>>
  /\ calls = <<>>
  /\ lastOpSinceOpen = NoOps
  /\ lastOpSinceReset = NoOps
  /\ kvKeyList = <<>>
  /\ kvEvents = <<>>
  /\ missing = {}
  /\ viewPc = "idle"
  /\ reads = <<>>
  /\ streamView = [kind |-> "none", msgs |-> <<>>]
  /\ rangeArgs = [startSeq |-> 0, endSeq |-> 0]
  /\ snapshot = {}
  /\ outOfOrder = FALSE
  /\ exported = [kind |-> "none", entries |-> <<>>, upTo |-> 0]
  /\ subscribeResult = [outcome |-> "none", id |-> 0, size |-> 0,
                        call |-> 0]
  /\ unsubscribeResult = [id |-> 0, outcome |-> "none", size |-> 0,
                          call |-> 0]
  /\ closedSubs = {}
  /\ returned = {}
  /\ forwarded = <<>>
  /\ latePushes = {}
  /\ btnReqDisabled = FALSE
  /\ pendingRequest = [pc |-> "none", timeout |-> 0]
  /\ toast = [text |-> "none", ms |-> 0, cause |-> "none", call |-> 0]
  /\ rendered = <<>>
  /\ binary = {}
  /\ viewData = <<>>
  /\ conns = <<>>
  /\ ncRef = NULL
  /\ connCalls = <<>>
  /\ connStarted = 0
  /\ autoConnect = "none"
  /\ btnConnectDisabled = FALSE
  /\ statusText = "Disconnected"
  /\ kvKeyInput = "none"
  /\ kvValueInput = ""
  /\ keyReads = <<>>
  /\ kvStore = [k \in Keys |-> k]
  /\ readResult = [k \in Keys |-> ""]
  /\ keySelects = 0
  /\ jsm = "none"
  /\ handleCalls = <<>>
  /\ connEpoch = 0
  /\ kvEpoch = 0
  /\ jsmEpoch = 0

\* ------------------------------------------------------------------------
\* nats-client.js: connection state
\* ------------------------------------------------------------------------

\* isConnected(): nc && !nc.isClosed()
isConnected == nc \in {"open", "closing", "reconnecting"}

\* the state reset at the end of disconnect() (both paths)
DisconnectReset ==
  /\ subscriptions' = {}
  /\ subCounter' = 0
  /\ session' = IF subCounter > 0 THEN session + 1 ELSE session
  /\ kv' = "none"

\* disconnect() before it awaits nc.close(): the KV watcher is stopped
DisconnectStopsWatcher ==
  /\ watchers' = StopWatcher(watchers, activeKvWatcher)
  /\ activeKvWatcher' = NULL

\* the state of main.js and of the handleKvBucketChange calls
appVars == <<kvKeys, currentKvBucket, currentKvWatcher, calls,
             lastOpSinceOpen, lastOpSinceReset, kvKeyList, kvEvents>>

\* ------------------------------------------------------------------------
\* History bookkeeping shared by the actions
\* ------------------------------------------------------------------------

\* ids flushBuffer takes out of the buffer of state s
FlushedIds(s) == Ids(SpliceBatch(s.msgBuffer))

\* ids startRenderLoop hands to the container from state s
StartedIds(s) == IF s.renderLoopId = NULL THEN FlushedIds(s) ELSE <<>>

\* a call that may add a flushBuffer callback stays within the host bound
CanStart(s) == s.renderLoopId # NULL \/ PendingCount(s) < MaxPending

\* ------------------------------------------------------------------------
\* Actions
\* ------------------------------------------------------------------------

\* btnConnect click while not connected: connectToNats (disconnect() first,
\* then wsconnect succeeds), setConnectionState, startRenderLoop
ConnectClick ==
  /\ ~isConnected
  /\ CanStart(UiState)
  /\ nc' = "open"
  /\ DisconnectReset
  /\ Install(startRenderLoop(UiState))
  /\ shown' = shown \o StartedIds(UiState)
  /\ rendered' = rendered \o StartedIds(UiState)
  /\ loopStopped' = FALSE
  /\ flushRan' = FALSE
  /\ UNCHANGED callVars
  /\ DisconnectStopsWatcher
  /\ UNCHANGED <<nextEvent, deliveries, pausedPushes, discarded, issued,
                 appVars>>

\* btnConnect click while connected: setConnectionState('disconnected'),
\* stopRenderLoop, then disconnect() up to its await of nc.close()
DisconnectClick ==
  /\ nc = "open"
  /\ nc' = "closing"
  /\ Install(stopRenderLoop(UiState))
  /\ discarded' = discarded \cup Range(Ids(msgBuffer))
  /\ loopStopped' = TRUE
  /\ flushRan' = FALSE
  /\ UNCHANGED laterVars
  /\ DisconnectStopsWatcher
  /\ UNCHANGED <<subCounter, subscriptions, nextEvent, deliveries,
                 pausedPushes, shown, issued, session, kv, appVars>>

\* nc.close() resolves: disconnect() clears its state, and the closed()
\* promise reports 'disconnected', whose handler calls stopRenderLoop
CloseComplete ==
  /\ nc = "closing"
  /\ nc' = "null"
  /\ DisconnectReset
  /\ Install(stopRenderLoop(UiState))
  /\ discarded' = discarded \cup Range(Ids(msgBuffer))
  /\ loopStopped' = TRUE
  /\ flushRan' = FALSE
  /\ UNCHANGED laterVars
  /\ UNCHANGED <<nextEvent, deliveries, pausedPushes, shown, issued,
                 activeKvWatcher, watchers, appVars>>

\* the server closes the connection: closed() reports 'disconnected' and
\* the status handler calls stopRenderLoop; nc stays set but isClosed()
ConnectionLost ==
  /\ nc = "open"
  /\ nc' = "closed"
  /\ Install(stopRenderLoop(UiState))
  /\ discarded' = discarded \cup Range(Ids(msgBuffer))
  /\ loopStopped' = TRUE
  /\ flushRan' = FALSE
  /\ UNCHANGED laterVars
  /\ UNCHANGED <<subCounter, subscriptions, nextEvent, deliveries,
                 pausedPushes, shown, issued, session, kvVars>>

\* the events with ids from..(from + n - 1) of kind MSG
MsgEvents(from, n) ==
  [i \in 1..n |-> [id |-> from + i - 1, isRpc |-> FALSE, subject |-> "s1",
                   data |-> PlainText]]

\* a subscription's for-await loop hands n messages to renderMessage
DeliverUpTo(max, n) ==
  /\ nc = "open"
  /\ deliveries < max
  /\ LET evs == MsgEvents(nextEvent, n)
     IN  /\ Install(renderAll(UiState, evs))
         /\ pausedPushes' = IF isPaused THEN pausedPushes \cup Range(evs)
                                        ELSE pausedPushes
  /\ nextEvent' = nextEvent + n
  /\ deliveries' = deliveries + 1
  /\ flushRan' = FALSE
  /\ UNCHANGED laterVars
  /\ UNCHANGED <<natsVars, kvVars, discarded, shown, loopStopped, issued,
                 session>>

Deliver == \E n \in BurstSizes : DeliverUpTo(MaxDeliveries, n)

\* btnReq click: the reply of nats.request is rendered with isRpc = true
RpcReply ==
  /\ nc = "open"
  /\ deliveries < MaxDeliveries
  /\ LET ev == [id |-> nextEvent, isRpc |-> TRUE, subject |-> "s1",
                data |-> PlainText]
     IN  /\ Install(renderMessage(UiState, ev))
         /\ pausedPushes' = IF isPaused THEN pausedPushes \cup {ev}
                                        ELSE pausedPushes
  /\ nextEvent' = nextEvent + 1
  /\ deliveries' = deliveries + 1
  /\ flushRan' = FALSE
  /\ UNCHANGED laterVars
  /\ UNCHANGED <<natsVars, kvVars, discarded, shown, loopStopped, issued,
                 session>>

\* btnPause click
TogglePause ==
  /\ Install(toggleLogPause(UiState))
  /\ flushRan' = FALSE
  /\ UNCHANGED laterVars
  /\ UNCHANGED <<natsVars, kvVars, nextEvent, deliveries, pausedPushes,
                 discarded, shown, loopStopped, issued, session>>

\* btnClear click (the log panel is shown while connected)
ClearLogsClick ==
  /\ nc = "open"
  /\ PendingCount(stopRenderLoop(UiState)) < MaxPending
  /\ Install(clearLogs(UiState))
  /\ discarded' = discarded \cup Range(Ids(msgBuffer))
  /\ shown' = <<>>
  /\ rendered' = rendered \o StartedIds(stopRenderLoop(UiState))
  /\ loopStopped' = FALSE
  /\ flushRan' = FALSE
  /\ UNCHANGED callVars
  /\ UNCHANGED <<natsVars, kvVars, nextEvent, deliveries, pausedPushes,
                 issued, session>>

\* the host runs a requested animation frame callback
RafFire ==
  \E id \in rafPending :
    LET s == [UiState EXCEPT !.rafPending = @ \ {id}]
    IN  /\ Install(flushBuffer(s))
        /\ shown' = shown \o FlushedIds(s)
        /\ rendered' = rendered \o FlushedIds(s)
        /\ flushRan' = TRUE
        /\ UNCHANGED callVars
        /\ UNCHANGED <<natsVars, kvVars, nextEvent, deliveries,
                       pausedPushes, discarded, loopStopped, issued, session>>

\* the host runs a zero-delay timer callback
TimerFire ==
  /\ timerPending > 0
  /\ LET s == [UiState EXCEPT !.timerPending = @ - 1]
     IN  /\ Install(flushBuffer(s))
         /\ shown' = shown \o FlushedIds(s)
         /\ rendered' = rendered \o FlushedIds(s)
  /\ flushRan' = TRUE
  /\ UNCHANGED callVars
  /\ UNCHANGED <<natsVars, kvVars, nextEvent, deliveries, pausedPushes,
                 discarded, loopStopped, issued, session>>

Next ==
  \/ ConnectClick
  \/ DisconnectClick
  \/ CloseComplete
  \/ ConnectionLost
  \/ Deliver
  \/ RpcReply
  \/ TogglePause
  \/ ClearLogsClick
  \/ RafFire
  \/ TimerFire

Spec == Init /\ [][Next]_vars

\* deliveries of SpecCeiling: the backlog grows past the rendered ceiling
DeliverCeiling == \E n \in BurstSizes : DeliverUpTo(MaxCeilingDeliveries, n)

NextCeiling ==
  \/ ConnectClick
  \/ DeliverCeiling
  \/ ClearLogsClick
  \/ RafFire
  \/ TimerFire

\* pushes and drain ticks only, with enough events to pass MAX_RENDERED
SpecCeiling == Init /\ [][NextCeiling]_vars

\* ------------------------------------------------------------------------
\* Claims
\* ------------------------------------------------------------------------

\* flushBuffer callbacks the host holds, on either queue
PendingDrains == Cardinality(rafPending) + timerPending

\* C1: at most one flushBuffer callback is pending at any moment, over every
\* interleaving of start, stop, clear, pushes and callback firings.
C1_AtMostOneDrainPending == PendingDrains <= 1

\* C2: once stopRenderLoop has run the buffer is empty and no flushBuffer
\* executes until startRenderLoop is called again.
C2_NoDrainAfterStop == loopStopped => (msgBuffer = <<>> /\ ~flushRan)

\* an event is nowhere in the pipeline: not buffered, not recorded, not shown
Absent(e) ==
  /\ e \notin Range(msgBuffer)
  /\ e.id \notin Range(Ids(logHistory))
  /\ e \notin Range(messages)

\* C3 (as stated): every event passed to renderMessage while paused is
\* dropped: it is never in the buffer, the log history or the rendered list.
C3_EveryPausedPushDropped == \A e \in pausedPushes : Absent(e)

\* C3 (amended): every MSG-kind event (isRpc false) passed to renderMessage
\* while paused is dropped: it is never in the buffer, the log history or
\* the rendered list, during the pause or after it.
C3_PausedMsgDropped == \A e \in pausedPushes : ~e.isRpc => Absent(e)

\* C3 witness: a MSG event was pushed while paused, the log was unpaused and
\* a later event has been rendered by a drain.
C3_Witness ==
  /\ ~isPaused
  /\ \E e \in pausedPushes :
       /\ ~e.isRpc
       /\ \E i \in 1..Len(messages) : messages[i].id > e.id

\* C4: the rendered list is ordered newest first: an event pushed later
\* (larger id) stands before every event pushed earlier, within one batch
\* and across batches.
C4_NewestFirst ==
  \A i \in 1..(Len(messages) - 1) : messages[i].id > messages[i + 1].id

\* C4 witness: two batches have been rendered, the first of them full.
C4_Witness == Len(messages) > BATCH_SIZE /\ flushRan

\* the last n elements of a sequence
LastN(s, n) == SubSeq(s, Len(s) - n + 1, Len(s))

\* C5: after every drain at most MAX_RENDERED entries are rendered, and they
\* are the most recently rendered ones, newest first: what the ceiling evicts
\* is always the oldest rendered entries, never part of the batch just added.
C5_CeilingKeepsNewest ==
  /\ Len(messages) <= MAX_RENDERED
  /\ Ids(messages) = Reverse(LastN(shown, Min(MAX_RENDERED, Len(shown))))

\* C5 witness: a drain has just pushed the rendered list over the ceiling.
C5_Witness == flushRan /\ Len(shown) > MAX_RENDERED /\ Len(messages) = MAX_RENDERED

\* the largest capacity the model could tell from no capacity at all: one
\* less than the number of events the environment can offer
ClaimedCapacity == MaxDeliveries * (BATCH_SIZE + 1) - 1

\* C6: the number of pending events never exceeds a fixed capacity, also
\* when pushes outrun the drain ticks.
C6_BufferBounded == Len(msgBuffer) <= ClaimedCapacity

\* deliveries of SpecLive
DeliverLive == \E n \in BurstSizes : DeliverUpTo(MaxLiveDeliveries, n)

NextLive ==
  \/ ConnectClick
  \/ DisconnectClick
  \/ CloseComplete
  \/ DeliverLive
  \/ ClearLogsClick
  \/ RafFire
  \/ TimerFire

\* the render loop with its stops and restarts; the paint and timer
\* callbacks the host holds are eventually run
SpecLive ==
  Init /\ [][NextLive]_vars /\ WF_vars(RafFire) /\ WF_vars(TimerFire)

\* the events followed through the pipeline: the first one and the first
\* one left behind by a full batch
TrackedIds == {1, BATCH_SIZE + 1}

InBuffer(n) == \E i \in 1..Len(msgBuffer) : msgBuffer[i].id = n

\* C7: under fair firing of the callbacks, every (tracked) event that is in
\* the buffer while a drain is scheduled is eventually handed to the
\* rendered list, unless a stop (disconnect, connection loss, clear logs)
\* discards it.
C7_AdmittedEventuallyRendered ==
  \A n \in TrackedIds :
    (InBuffer(n) /\ PendingDrains > 0) ~> (n \in Range(shown) \/ n \in discarded)

\* C7 witness: an event that had to wait for a second drain has been
\* rendered and nothing is left in the buffer.
C7_Witness ==
  /\ msgBuffer = <<>>
  /\ Len(shown) > BATCH_SIZE
  /\ (BATCH_SIZE + 1) \in Range(shown)

\* ------------------------------------------------------------------------
\* Subscription registry: subscribe / unsubscribe of nats-client.js
\* ------------------------------------------------------------------------

\* calls of subscribe() that return an id in one run
MaxSubscribes == 3

\* mutant: the id is derived from the size of the registry
SubIdFromSize(counter, subs) == Cardinality(subs) + 1

\* const id = ++subCounter
SubId(counter, subs) == counter + 1

\* mutant: only a connection that was never opened counts as missing
NotConnectedNullOnly(conn) == conn = "null"

\* if (!nc || nc.isClosed())
NotConnected(conn) == conn \in {"null", "closed"}

\* handleSubscribe -> nats.subscribe(): throws "Not Connected" without a
\* connection, else registers the subscription under the next id
SubscribeUpTo(max) ==
  /\ IF NotConnected(nc)
     THEN /\ subscribeResult' = [outcome |-> "Not Connected", id |-> 0,
                                 size |-> 0,
                                 call |-> 1 - subscribeResult.call]
          /\ UNCHANGED <<subCounter, subscriptions, issued>>
     ELSE /\ nc \notin {"closing", "reconnecting"}
          /\ Len(issued) < max
          /\ LET id == SubId(subCounter, subscriptions)
             IN  /\ subCounter' = id
                 /\ subscriptions' = subscriptions \cup {id}
                 /\ issued' = Append(issued,
                                     [id |-> id, session |-> session])
          /\ subscribeResult' = [outcome |-> "ok", id |-> subCounter',
                                 size |-> Cardinality(subscriptions'),
                                 call |-> 1 - subscribeResult.call]
  /\ flushRan' = FALSE
  /\ UNCHANGED <<streamVars, exported, regVars, tailVars>>
  /\ UNCHANGED <<uiVars, nc, kvVars, nextEvent, deliveries, pausedPushes,
                 discarded, shown, loopStopped, session>>

Subscribe == SubscribeUpTo(MaxSubscribes)

\* the position in issued of the handle the registry holds under id
HandleOf(id) ==
  CHOOSE h \in 1..Len(issued) :
    /\ issued[h].id = id
    /\ issued[h].session = session
    /\ \A g \in (h + 1)..Len(issued) :
         ~(issued[g].id = id /\ issued[g].session = session)

\* mutant: an id the registry does not hold is an error
unsubscribeStrict(subs, id) ==
  IF id \in subs
  THEN [subscriptions |-> subs \ {id}, outcome |-> "ok",
        size |-> Cardinality(subs \ {id})]
  ELSE [subscriptions |-> subs, outcome |-> "threw", size |-> 0]

\* mutant: the size is read before the entry is deleted
unsubscribeStaleSize(subs, id) ==
  [subscriptions |-> subs \ {id}, outcome |-> "ok",
   size |-> Cardinality(subs)]

\* unsubscribe(id): if (item) { ...; subscriptions.delete(id) }
\* return subscriptions.size
unsubscribe(subs, id) ==
  [subscriptions |-> subs \ {id}, outcome |-> "ok",
   size |-> Cardinality(subs \ {id})]

\* mutant: the entry is deleted and the handle is left alone
CancelHandleNever(conn, done, h) == done

\* item.sub.unsubscribe() inside try/catch: the handle is cancelled; on a
\* closed connection the call throws, the error is logged and the handle,
\* which a closed connection feeds no more, stays as it is
CancelHandle(conn, done, h) ==
  IF conn = "closed" THEN done ELSE done \cup {h}

\* handleUnsubscribe(id) -> nats.unsubscribe(id), for any id up to max
UnsubscribeUpTo(max) ==
  \E id \in 1..max :
    LET r == unsubscribe(subscriptions, id)
    IN  /\ subscriptions' = r.subscriptions
        /\ unsubscribeResult' = [id |-> id, outcome |-> r.outcome,
                                 size |-> r.size,
                                 call |-> 1 - unsubscribeResult.call]
        /\ closedSubs' = IF id \in subscriptions
                        THEN CancelHandle(nc, closedSubs, HandleOf(id))
                        ELSE closedSubs
        /\ returned' = IF id \in subscriptions
                       THEN returned \cup {HandleOf(id)}
                       ELSE returned
        /\ flushRan' = FALSE
        /\ UNCHANGED <<streamVars, exported, subscribeResult, fwdVars,
                       tailVars>>
        /\ UNCHANGED <<uiVars, nc, subCounter, kvVars, nextEvent, deliveries,
                       pausedPushes, discarded, shown, loopStopped, issued,
                       session>>

Unsubscribe == UnsubscribeUpTo(MaxSubscribes)

NextSub ==
  \/ ConnectClick
  \/ DisconnectClick
  \/ CloseComplete
  \/ ConnectionLost
  \/ Subscribe
  \/ Unsubscribe

SpecSub == Init /\ [][NextSub]_vars

\* C8 (as stated): subscription ids are monotonic and unique for the
\* lifetime of the process: a later subscribe call always returns a larger
\* id than every earlier one, also across a disconnect and a reconnect.
C8_IdsUniqueForever ==
  \A i, j \in 1..Len(issued) : i < j => issued[i].id < issued[j].id

\* C8 (amended): within one connection session, i.e. between two resets
\* of the counter by disconnect(), a later subscribe call returns a larger
\* id than every earlier one.
C8_IdsUniqueWithinSession ==
  \A i, j \in 1..Len(issued) :
    (i < j /\ issued[i].session = issued[j].session)
      => issued[i].id < issued[j].id

\* two ids issued in one session and, after a disconnect and a reconnect,
\* a third subscribe call that returns the first id again
C8_Witness ==
  \E i, j, k \in 1..Len(issued) :
    /\ i < j /\ j < k
    /\ issued[i].session = issued[j].session
    /\ issued[i].id < issued[j].id
    /\ issued[k].session > issued[i].session
    /\ issued[k].id = issued[i].id

\* ------------------------------------------------------------------------
\* KV bucket watcher: handlers of main.js
\* ------------------------------------------------------------------------

\* calls of handleKvBucketChange with a bucket selected, in one run
MaxOpens == 2

\* the sequence without its element at position c
RemoveAt(s, c) == SubSeq(s, 1, c - 1) \o SubSeq(s, c + 1, Len(s))

\* handleConnect while not connected: connectToNats() runs disconnect()
\* first, then opens the connection
KvConnect ==
  /\ ~isConnected
  /\ nc' = "open"
  /\ DisconnectReset
  /\ DisconnectStopsWatcher
  /\ flushRan' = FALSE
  /\ UNCHANGED laterVars
  /\ UNCHANGED <<uiVars, appVars, nextEvent, deliveries, pausedPushes,
                 discarded, shown, loopStopped, issued>>

\* handleConnect while connected, up to the await of nc.close()
KvDisconnect ==
  /\ nc = "open"
  /\ nc' = "closing"
  /\ DisconnectStopsWatcher
  /\ flushRan' = FALSE
  /\ UNCHANGED laterVars
  /\ UNCHANGED <<uiVars, subCounter, subscriptions, kv, appVars, nextEvent,
                 deliveries, pausedPushes, discarded, shown, loopStopped,
                 issued, session>>

\* the part of appState the disconnect flow of handleConnect can reach
KvSelection == [currentKvBucket |-> currentKvBucket, kvKeys |-> kvKeys]

\* mutant: the disconnect flow also forgets the keys
handleConnectDisconnectClearsKeys(app) ==
  [app EXCEPT !.currentKvBucket = "none", !.kvKeys = {}]

\* handleConnect after await nats.disconnect():
\* appState.currentKvBucket = null
handleConnectDisconnect(app) == [app EXCEPT !.currentKvBucket = "none"]

\* nc.close() resolves: every change feed of the connection ends and
\* every request still awaited on it is rejected, the client state is
\* reset and the bucket selection is forgotten
KvCloseComplete ==
  /\ nc = "closing"
  /\ nc' = "null"
  /\ DisconnectReset
  /\ watchers' = [w \in 1..Len(watchers) |->
                    [watchers[w] EXCEPT !.active = FALSE]]
  /\ calls' = <<>>
  /\ currentKvBucket' = handleConnectDisconnect(KvSelection).currentKvBucket
  /\ kvKeys' = handleConnectDisconnect(KvSelection).kvKeys
  /\ flushRan' = FALSE
  /\ reads' = [i \in DOMAIN reads |->
                 IF reads[i] = "pending" THEN "failed" ELSE reads[i]]
  /\ UNCHANGED <<missing, viewPc, streamView, rangeArgs, snapshot,
                 outOfOrder, afterStreamVars>>
  /\ UNCHANGED <<uiVars, activeKvWatcher, currentKvWatcher,
                 lastOpSinceOpen, lastOpSinceReset, kvKeyList, kvEvents,
                 nextEvent, deliveries,
                 pausedPushes, discarded, shown, loopStopped, issued>>

\* handleKvBucketChange up to its first await; b = "none" is the
\* "-- Select a Bucket --" entry, for which the handler returns at once,
\* as it does when openKvBucket throws "Not Connected"
BucketChange(b) ==
  /\ b # "none" => Len(calls) + Len(watchers) < MaxOpens
  /\ currentKvBucket' = b
  /\ kvKeys' = {}
  /\ watchers' = StopWatcher(watchers, currentKvWatcher)
  /\ currentKvWatcher' = NULL
  /\ calls' = IF b = "none" \/ nc # "open" THEN calls
              ELSE Append(calls, [bucket |-> b, pc |-> "opening"])
  /\ lastOpSinceOpen' = NoOps
  /\ lastOpSinceReset' = NoOps
  /\ kvKeyList' = <<>>
  /\ kvEvents' = <<>>
  /\ flushRan' = FALSE
  /\ UNCHANGED laterVars
  /\ UNCHANGED <<uiVars, natsVars, kv, activeKvWatcher, histVars>>

\* openKvBucket resolves in call c, which goes on into watchKvBucket up
\* to the await of kv.watch(); the reply may arrive while disconnect()
\* awaits nc.close()
OpenResolves(c) ==
  /\ nc \in {"open", "closing"}
  /\ calls[c].pc = "opening"
  /\ kv' = calls[c].bucket
  /\ watchers' = StopWatcher(watchers, activeKvWatcher)
  /\ calls' = [calls EXCEPT ![c].pc = "watching"]
  /\ flushRan' = FALSE
  /\ UNCHANGED laterVars
  /\ UNCHANGED <<uiVars, natsVars, activeKvWatcher, kvKeys, currentKvBucket,
                 currentKvWatcher, lastOpSinceOpen, lastOpSinceReset,
                 kvKeyList, kvEvents,
                 histVars>>

\* kvm.open() or kv.watch() is rejected in call c: the handler reports
\* the error and ends
CallFails(c) ==
  /\ calls' = RemoveAt(calls, c)
  /\ flushRan' = FALSE
  /\ UNCHANGED laterVars
  /\ UNCHANGED <<uiVars, natsVars, kv, activeKvWatcher, kvKeys,
                 currentKvBucket, currentKvWatcher, watchers,
                 lastOpSinceOpen, lastOpSinceReset, kvKeyList, kvEvents, histVars>>

\* kv.watch() resolves in call c: the iterator starts to deliver and is
\* stored in activeKvWatcher and in appState.currentKvWatcher; the reply
\* may arrive while disconnect() awaits nc.close()
WatchResolves(c) ==
  /\ nc \in {"open", "closing"}
  /\ calls[c].pc = "watching"
  /\ LET iter == Len(watchers) + 1
     IN  /\ watchers' = Append(watchers,
                               [bucket |-> calls[c].bucket, active |-> TRUE])
         /\ activeKvWatcher' = iter
         /\ currentKvWatcher' = iter
  /\ calls' = RemoveAt(calls, c)
  /\ flushRan' = FALSE
  /\ UNCHANGED laterVars
  /\ UNCHANGED <<uiVars, natsVars, kv, kvKeys, currentKvBucket,
                 lastOpSinceOpen, lastOpSinceReset, kvKeyList, kvEvents, histVars>>

\* a running iterator delivers one change event to the callback
KvEvent(w, key, op) ==
  /\ nc = "open"
  /\ w \in ActiveWatchers
  /\ kvKeys' = onKeyChange(kvKeys, key, op)
  /\ lastOpSinceOpen' = [lastOpSinceOpen EXCEPT ![key] = op]
  /\ lastOpSinceReset' = [lastOpSinceReset EXCEPT ![key] = op]
  /\ kvKeyList' = onKeyChangeList(kvKeys, kvKeyList, key, op)
  /\ kvEvents' = LastTwo(Append(kvEvents,
       [key |-> key, op |-> op,
        added |-> addedNotifications(kvKeys, key, op),
        changed |-> \/ kvKeys' # kvKeys
                    \/ kvKeyList' # kvKeyList]))
  /\ flushRan' = FALSE
  /\ UNCHANGED laterVars
  /\ UNCHANGED <<uiVars, natsVars, kv, activeKvWatcher, currentKvBucket,
                 currentKvWatcher, watchers, calls, histVars>>

\* loadKvBucketsWrapper after getKvBuckets() resolved; listed tells
\* whether the selected bucket is still in the list
LoadKvBuckets(listed) ==
  /\ nc = "open"
  /\ IF currentKvBucket # "none" /\ ~listed
     THEN /\ currentKvBucket' = "none"
          /\ kvKeys' = {}
          /\ lastOpSinceReset' = NoOps
          /\ kvKeyList' = <<>>
          /\ kvEvents' = <<>>
     ELSE UNCHANGED <<currentKvBucket, kvKeys, lastOpSinceReset, kvKeyList,
                      kvEvents>>
  /\ flushRan' = FALSE
  /\ UNCHANGED laterVars
  /\ UNCHANGED <<uiVars, natsVars, kv, activeKvWatcher, currentKvWatcher,
                 watchers, calls, lastOpSinceOpen, histVars>>

NextKv ==
  \/ KvConnect
  \/ KvDisconnect
  \/ KvCloseComplete
  \/ \E b \in Buckets \cup {"none"} : BucketChange(b)
  \/ \E c \in 1..Len(calls) : OpenResolves(c)
  \/ \E c \in 1..Len(calls) : CallFails(c)
  \/ \E c \in 1..Len(calls) : WatchResolves(c)
  \/ \E w \in 1..Len(watchers), key \in Keys, op \in Operations :
       KvEvent(w, key, op)
  \/ \E listed \in BOOLEAN : LoadKvBuckets(listed)

SpecKv == Init /\ [][NextKv]_vars

\* C9: at most one change-feed watcher is ever active, also when a second
\* bucket change starts while the first one is still awaiting openKvBucket
\* or kv.watch().
C9_AtMostOneActiveWatcher == Cardinality(ActiveWatchers) <= 1

\* the watch stored by the last completed bucket change is still running
WatchOpen ==
  currentKvWatcher # NULL /\ currentKvWatcher \in ActiveWatchers

\* C10 (as stated): at every point after a watch is opened, a key is in
\* the key set if and only if the most recent change event for that key
\* observed since the bucket change that opened the watch is add-like.
C10_KeySetFoldsSinceOpen ==
  WatchOpen => \A k \in Keys : (k \in kvKeys <=> lastOpSinceOpen[k] = "PUT")

\* C10 (amended): at every point, a key is in the key set if and only if
\* the most recent change event for that key delivered since the key set
\* was last emptied (by a bucket change or by the clean-up for a bucket
\* that is no longer listed) is add-like; events for other keys never
\* change the membership of the key.
C10_KeySetFoldsSinceReset ==
  \A k \in Keys : (k \in kvKeys <=> lastOpSinceReset[k] = "PUT")

\* a running watch has added one key and removed another one
C10_Witness ==
  /\ WatchOpen
  /\ \E k, j \in Keys :
       /\ k \in kvKeys
       /\ lastOpSinceReset[k] = "PUT"
       /\ j \notin kvKeys
       /\ lastOpSinceReset[j] \in {"DEL", "PURGE"}

AddLike(op) == op # "DEL" /\ op # "PURGE"

\* the number of entries of the key list for one key
Occurrences(list, key) == Cardinality({i \in 1..Len(list) : list[i] = key})

\* C11: the key-set reconciler is idempotent. Every key of the key set has
\* exactly one entry in the key list and no other key has one; of two
\* add-like events in a row for one key the second changes nothing and
\* signals nothing, and the first signals "added" exactly when the key was
\* absent; DEL or PURGE for an absent key changes nothing and signals
\* nothing.
C11_ReconcilerIdempotent ==
  /\ \A k \in Keys :
       Occurrences(kvKeyList, k) = IF k \in kvKeys THEN 1 ELSE 0
  /\ (Len(kvEvents) = 2 /\ kvEvents[1].key = kvEvents[2].key
        /\ AddLike(kvEvents[1].op) /\ AddLike(kvEvents[2].op))
       => /\ ~kvEvents[2].changed
          /\ kvEvents[2].added = 0
          /\ kvEvents[1].added = IF kvEvents[1].changed THEN 1 ELSE 0
          /\ Occurrences(kvKeyList, kvEvents[2].key) = 1
  /\ (Len(kvEvents) = 1 /\ ~AddLike(kvEvents[1].op))
       => (~kvEvents[1].changed /\ kvEvents[1].added = 0)
  /\ (Len(kvEvents) = 2 /\ kvEvents[1].key = kvEvents[2].key
        /\ ~AddLike(kvEvents[1].op) /\ ~AddLike(kvEvents[2].op))
       => (~kvEvents[2].changed /\ kvEvents[2].added = 0)

\* an absent key was added by one event and the same add-like event came
\* a second time
C11_Witness ==
  /\ Len(kvEvents) = 2
  /\ kvEvents[1].key = kvEvents[2].key
  /\ kvEvents[1].op = "PUT" /\ kvEvents[2].op = "PUT"
  /\ kvEvents[1].changed /\ kvEvents[1].added = 1
  /\ kvEvents[2].added = 0
  /\ kvEvents[2].key \in kvKeys

\* ------------------------------------------------------------------------
\* Stream message view: handleStreamViewMessages of main.js and
\* getStreamMessageRange of nats-client.js
\* ------------------------------------------------------------------------

MAX_STREAM_MSG_FETCH == 50

\* the sequence positions the small requests range over
MaxSeq == 3

\* the first position of the wide requests goes up to this one
MaxWideStart == 1

\* the numbers of a set, largest first
RECURSIVE Descending(_)
Descending(S) ==
  IF S = {} THEN <<>>
  ELSE LET m == CHOOSE x \in S : \A y \in S : y <= x
       IN  <<m>> \o Descending(S \ {m})

\* the positions lo..hi in the order of the loop
Ascending(lo, hi) == [k \in 1..(hi - lo + 1) |-> lo + k - 1]

\* mutant: startSeq is passed on as given
ClampStartNone(startSeq) == startSeq

\* if(startSeq < 1) startSeq = 1
ClampStart(startSeq) == IF startSeq < 1 THEN 1 ELSE startSeq

\* the positions whose read was settled with a message
Fetched(rd) == {i \in DOMAIN rd : rd[i] = "ok"}

\* mutant: the surviving entries are returned in the order of the loop
RangeResultForward(rd, lo, hi) ==
  SelectSeq(Ascending(lo, hi), LAMBDA i : rd[i] = "ok")

\* results.filter(m => m !== null).reverse(): Promise.all keeps the order
\* of the loop whatever the order of completion
RangeResult(rd, lo, hi) ==
  Reverse(SelectSeq(Ascending(lo, hi), LAMBDA i : rd[i] = "ok"))

\* mutant: a read that fails rejects Promise.all and with it the call
RangeOutcomeRejecting(rd, lo, hi) ==
  IF \E i \in DOMAIN rd : rd[i] = "failed"
  THEN [kind |-> "error", msgs |-> <<>>]
  ELSE [kind |-> "shown", msgs |-> RangeResult(rd, lo, hi)]

\* what the call resolves to once every read is settled: .catch(() => null)
\* turns a failed read into the missing sentinel
RangeOutcome(rd, lo, hi) ==
  [kind |-> "shown", msgs |-> RangeResult(rd, lo, hi)]

\* the annotation the forwarding task of subscribe() has for binary data
BinaryPlaceholder == "[Binary Data: n bytes]"

\* the payload of the message at a position: bytes that are UTF-8 text or
\* bytes that are not
PayloadAt(i, bin) == IF i \in bin THEN "invalid utf-8" ELSE "utf-8"

\* decoder.decode(sm.data) with const decoder = new TextDecoder(): not
\* fatal, so bytes that are not UTF-8 become U+FFFD characters of a text
decode(payload) ==
  IF payload = "invalid utf-8" THEN "text with U+FFFD" ELSE "text"

\* the .then() of one read: data: decoder.decode(sm.data)
RangeData(seqs, bin) ==
  [i \in seqs |-> [data |-> decode(PayloadAt(i, bin)),
                   payload |-> PayloadAt(i, bin)]]

\* handleStreamViewMessages with the two sequence inputs, up to the await
\* of Promise.all in getStreamMessageRange
handleStreamViewMessages(start, end) ==
  /\ viewPc = "idle"
  /\ rangeArgs' = [startSeq |-> start, endSeq |-> end]
  /\ snapshot' = missing
  /\ outOfOrder' = FALSE
  /\ IF end < start \/ (end - start) > MAX_STREAM_MSG_FETCH
     THEN /\ streamView' = [kind |-> "rejected", msgs |-> <<>>]
          /\ reads' = <<>>
          /\ UNCHANGED viewPc
     ELSE IF nc # "open"
     THEN /\ streamView' = [kind |-> "error", msgs |-> <<>>]
          /\ reads' = <<>>
          /\ UNCHANGED viewPc
     ELSE IF end < ClampStart(start)
     THEN /\ streamView' = [kind |-> "shown", msgs |-> <<>>]
          /\ reads' = <<>>
          /\ UNCHANGED viewPc
     ELSE /\ streamView' = [kind |-> "loading", msgs |-> <<>>]
          /\ reads' = [i \in ClampStart(start)..end |-> "pending"]
          /\ viewPc' = "loading"
  /\ viewData' = <<>>
  /\ flushRan' = FALSE
  /\ UNCHANGED nonViewVars
  /\ UNCHANGED <<uiVars, natsVars, kvVars, missing, nextEvent, deliveries,
                 pausedPushes, discarded, shown, loopStopped, issued,
                 session>>

\* a request with small sequence numbers
ViewMessages ==
  \E start \in -1..MaxSeq, end \in -1..MaxSeq :
    handleStreamViewMessages(start, end)

\* a request around the limit of the window
ViewWideMessages ==
  \E start \in 0..MaxWideStart,
     width \in {MAX_STREAM_MSG_FETCH - 1, MAX_STREAM_MSG_FETCH,
                MAX_STREAM_MSG_FETCH + 1} :
    handleStreamViewMessages(start, start + width)

Pending == {i \in DOMAIN reads : reads[i] = "pending"}

\* mgr.streams.getMessage settles for the positions of S: with a message
\* if the position has one and the connection is open, with an error
\* otherwise
ReadsComplete(S) ==
  /\ viewPc = "loading"
  /\ S # {}
  /\ S \subseteq Pending
  /\ reads' = [i \in DOMAIN reads |->
                 IF i \in S
                 THEN IF nc = "open" /\ i \notin missing
                      THEN "ok" ELSE "failed"
                 ELSE reads[i]]
  /\ outOfOrder' = (outOfOrder \/ \E i \in S, j \in Pending \ S : j < i)
  /\ flushRan' = FALSE
  /\ UNCHANGED afterStreamVars
  /\ UNCHANGED <<uiVars, natsVars, kvVars, missing, viewPc, streamView,
                 rangeArgs, snapshot, nextEvent, deliveries, pausedPushes,
                 discarded, shown, loopStopped, issued, session>>

\* one read settles, in any order
ReadCompletes == \E i \in Pending : ReadsComplete({i})

\* the reads still pending settle together
AllReadsComplete == ReadsComplete(Pending)

\* Promise.all resolves, getStreamMessageRange returns and the handler
\* renders the messages
RangeReturns ==
  /\ viewPc = "loading"
  /\ Pending = {}
  /\ streamView' = RangeOutcome(reads, ClampStart(rangeArgs.startSeq),
                                rangeArgs.endSeq)
  /\ viewData' = RangeData(Range(streamView'.msgs), binary)
  /\ viewPc' = "idle"
  /\ flushRan' = FALSE
  /\ UNCHANGED nonViewVars
  /\ UNCHANGED <<uiVars, natsVars, kvVars, missing, reads, rangeArgs,
                 snapshot, outOfOrder, nextEvent, deliveries, pausedPushes,
                 discarded, shown, loopStopped, issued, session>>

\* a message of the stream is deleted or purged while no request runs
DeleteMessage ==
  \E i \in (1..MaxSeq) \ missing :
    /\ viewPc = "idle"
    /\ missing' = missing \cup {i}
    /\ flushRan' = FALSE
    /\ UNCHANGED afterStreamVars
    /\ UNCHANGED <<uiVars, natsVars, kvVars, viewPc, reads, streamView,
                   rangeArgs, snapshot, outOfOrder, nextEvent, deliveries,
                   pausedPushes, discarded, shown, loopStopped, issued,
                   session>>

NextStream ==
  \/ KvConnect
  \/ KvDisconnect
  \/ KvCloseComplete
  \/ DeleteMessage
  \/ ViewMessages
  \/ ReadCompletes
  \/ RangeReturns

SpecStream == Init /\ [][NextStream]_vars

NextView ==
  \/ KvConnect
  \/ KvDisconnect
  \/ KvCloseComplete
  \/ DeleteMessage
  \/ ViewWideMessages
  \/ AllReadsComplete
  \/ RangeReturns

SpecView == Init /\ [][NextView]_vars

\* the call has returned the messages of a window that was not empty
Returned == viewPc = "idle" /\ DOMAIN reads # {}

\* no read of the call failed for a position that has a message
OnlyMissingFailed ==
  \A i \in DOMAIN reads : reads[i] = "failed" => i \in snapshot

\* C12: for startSeq <= endSeq the call returns exactly one entry for each
\* position of [max(1, startSeq), endSeq] that has a message and none for
\* a position without one, in strictly descending order of seq, whatever
\* the order in which the reads completed.
C12_RangeNewestFirst ==
  (Returned /\ OnlyMissingFailed)
    => /\ streamView.kind = "shown"
       /\ streamView.msgs =
            Descending({i \in 1..rangeArgs.endSeq :
                          /\ i >= rangeArgs.startSeq
                          /\ i \notin snapshot})

\* a window with a gap in the middle, read out of order, has returned
C12_Witness ==
  /\ Returned
  /\ OnlyMissingFailed
  /\ outOfOrder
  /\ \E i \in DOMAIN reads :
       /\ i - 1 \in DOMAIN reads
       /\ i + 1 \in DOMAIN reads
       /\ reads[i] = "failed"
       /\ reads[i - 1] = "ok"
       /\ reads[i + 1] = "ok"
  /\ Len(streamView.msgs) = 2

\* C13: while connected, the call never fails because reads fail: when
\* every read is settled it returns the entries of the reads that did not
\* fail, whichever reads failed.
C13_ReadFailuresAbsorbed ==
  Returned
    => /\ streamView.kind = "shown"
       /\ streamView.msgs = Descending(Fetched(reads))

\* every read of the window failed and the call returned an empty sequence
C13_Witness ==
  /\ Returned
  /\ nc = "open"
  /\ Cardinality(DOMAIN reads) > 1
  /\ \A i \in DOMAIN reads : reads[i] = "failed"
  /\ streamView = [kind |-> "shown", msgs |-> <<>>]

\* C14: the stream message view never invokes getStreamMessageRange with
\* a window of more than 50 sequence positions, and a rejected request
\* issues no read.
C14_WindowWithinLimit ==
  /\ Cardinality(DOMAIN reads) <= MAX_STREAM_MSG_FETCH
  /\ streamView.kind = "rejected" => DOMAIN reads = {}

\* C15: while connected, a call with endSeq below startSeq, startSeq first
\* raised to at least 1, returns an empty sequence and issues no read.
C15_EmptyRangeNoFetch ==
  (/\ streamView.kind \in {"shown", "loading"}
   /\ rangeArgs.endSeq <
        (IF rangeArgs.startSeq < 1 THEN 1 ELSE rangeArgs.startSeq))
    => /\ streamView = [kind |-> "shown", msgs |-> <<>>]
       /\ DOMAIN reads = {}

\* a call with startSeq 0 and endSeq 0 has returned while connected
C15_Witness ==
  /\ nc = "open"
  /\ rangeArgs = [startSeq |-> 0, endSeq |-> 0]
  /\ streamView = [kind |-> "shown", msgs |-> <<>>]
  /\ DOMAIN reads = {}

\* ------------------------------------------------------------------------
\* Connection sessions and the event buffer
\* ------------------------------------------------------------------------

\* deliveries of SpecSession
MaxSessionDeliveries == 2

DeliverSession == \E n \in BurstSizes : DeliverUpTo(MaxSessionDeliveries, n)

\* a subscription's for-await loop hands n messages to renderMessage
\* after the disconnect click, while nc.close() is awaited
DeliverClosing ==
  \E n \in BurstSizes :
    /\ nc = "closing"
    /\ deliveries < MaxSessionDeliveries
    /\ LET evs == MsgEvents(nextEvent, n)
       IN  /\ Install(renderAll(UiState, evs))
           /\ pausedPushes' = IF isPaused THEN pausedPushes \cup Range(evs)
                                          ELSE pausedPushes
    /\ nextEvent' = nextEvent + n
    /\ deliveries' = deliveries + 1
    /\ flushRan' = FALSE
    /\ UNCHANGED laterVars
    /\ UNCHANGED <<natsVars, kvVars, discarded, shown, loopStopped, issued,
                   session>>

\* nc.status() reports "disconnect": the handler shows 'reconnecting'
StatusDisconnect ==
  /\ nc = "open"
  /\ nc' = "reconnecting"
  /\ flushRan' = FALSE
  /\ UNCHANGED laterVars
  /\ UNCHANGED <<uiVars, subCounter, subscriptions, kvVars, nextEvent,
                 deliveries, pausedPushes, discarded, shown, loopStopped,
                 issued, session>>

\* nc.status() reports "reconnect": the handler shows 'connected' and the
\* toast "Reconnected"
StatusReconnect ==
  /\ nc = "reconnecting"
  /\ nc' = "open"
  /\ flushRan' = FALSE
  /\ UNCHANGED laterVars
  /\ UNCHANGED <<uiVars, subCounter, subscriptions, kvVars, nextEvent,
                 deliveries, pausedPushes, discarded, shown, loopStopped,
                 issued, session>>

NextSession ==
  \/ ConnectClick
  \/ DisconnectClick
  \/ CloseComplete
  \/ ConnectionLost
  \/ StatusDisconnect
  \/ StatusReconnect
  \/ DeliverSession
  \/ DeliverClosing
  \/ RafFire
  \/ TimerFire

SpecSession == Init /\ [][NextSession]_vars

C17_ClearResetsPlayback ==
  [][(logHistory # <<>> /\ logHistory' = <<>>)
       => /\ msgBuffer' = <<>>
          /\ messages' = <<>>
          /\ PendingDrains' = 1
          /\ rafPending' = {renderLoopId'}]_vars

\* ------------------------------------------------------------------------
\* Log history: capacity
\* ------------------------------------------------------------------------

\* deliveries of SpecHistory
MaxHistoryDeliveries == 3

\* the large delivery of SpecHistory
HistoryBurst == 400

DeliverHistory ==
  \E n \in {1, HistoryBurst} : DeliverUpTo(MaxHistoryDeliveries, n)

NextHistory ==
  \/ ConnectClick
  \/ DeliverHistory
  \/ RafFire
  \/ TimerFire

SpecHistory == Init /\ [][NextHistory]_vars

\* C18: the log history holds at most MAX_LOG_HISTORY entries, and they
\* are the most recent min(n, MAX_LOG_HISTORY) of the n admitted events in
\* admission order (no event is refused by a pause and the log is not
\* cleared in SpecHistory, so the admitted events are 1..nextEvent - 1).
C18_HistoryKeepsNewest ==
  LET n == nextEvent - 1
      kept == Min(n, MAX_LOG_HISTORY)
  IN  /\ Len(logHistory) = kept
      /\ Len(logHistory) <= MAX_LOG_HISTORY
      /\ \A i \in 1..kept : logHistory[i].id = n - kept + i

\* more events were admitted than the history holds
C18_Witness ==
  /\ nextEvent - 1 > MAX_LOG_HISTORY
  /\ Len(logHistory) = MAX_LOG_HISTORY
  /\ logHistory[1].id > 1

\* ------------------------------------------------------------------------
\* Log history: export
\* ------------------------------------------------------------------------

\* deliveries of SpecExport
MaxExportDeliveries == 2

\* mutant: the export leaves out the oldest entry
downloadLogsTail(log, now) ==
  IF log = <<>>
  THEN [kind |-> "empty", entries |-> <<>>, upTo |-> now]
  ELSE [kind |-> "file", entries |-> Tail(log), upTo |-> now]

\* downloadLogs: the toast "No logs to export" for an empty history, else
\* a file with JSON.stringify(logHistory); the entries are given as the
\* values a reader of the file gets back. upTo is a label of the history:
\* the number of events delivered so far
downloadLogs(log, now) ==
  IF log = <<>>
  THEN [kind |-> "empty", entries |-> <<>>, upTo |-> now]
  ELSE [kind |-> "file", entries |-> log, upTo |-> now]

\* the export button
DownloadLogs ==
  /\ exported' = downloadLogs(logHistory, nextEvent)
  /\ flushRan' = FALSE
  /\ UNCHANGED <<uiVars, natsVars, kvVars, nextEvent, deliveries, pausedPushes, discarded,
                 shown, loopStopped, issued, session, streamVars,
                 subscribeResult, regVars, tailVars>>

\* a subscription's for-await loop hands one message to renderMessage
DeliverPayload ==
  \E subject \in Subjects, data \in Payloads :
    /\ nc = "open"
    /\ deliveries < MaxExportDeliveries
    /\ LET ev == [id |-> nextEvent, isRpc |-> FALSE, subject |-> subject,
                  data |-> data]
       IN  /\ Install(renderMessage(UiState, ev))
           /\ pausedPushes' = IF isPaused THEN pausedPushes \cup {ev}
                                          ELSE pausedPushes
    /\ nextEvent' = nextEvent + 1
    /\ deliveries' = deliveries + 1
    /\ flushRan' = FALSE
    /\ UNCHANGED laterVars
    /\ UNCHANGED <<natsVars, kvVars, discarded, shown, loopStopped, issued,
                   session>>

NextExport ==
  \/ ConnectClick
  \/ DeliverPayload
  \/ DownloadLogs
  \/ ClearLogsClick
  \/ RafFire

SpecExport == Init /\ [][NextExport]_vars

\* the last export was made from the history as it is now
ExportIsCurrent ==
  /\ exported.kind # "none"
  /\ exported.upTo = nextEvent
  /\ ~(exported.kind = "file" /\ logHistory = <<>>)

\* the kind and the subject of an entry are those of the event it records
KeepsKindAndSubject(e) ==
  /\ e.subject = e.received.subject
  /\ e.type = IF e.received.isRpc THEN "RPC" ELSE "MSG"

C20_SubscribeNotConnected ==
  [][(subscribeResult' # subscribeResult /\ nc \in {"null", "closed"})
       => /\ subscribeResult'.outcome = "Not Connected"
          /\ UNCHANGED <<subCounter, subscriptions, issued>>]_vars

\* subscribe() has failed on a connection that was lost with
\* subscriptions in the registry
C20_Witness ==
  /\ subscribeResult.outcome = "Not Connected"
  /\ nc = "closed"
  /\ subscriptions # {}

\* ------------------------------------------------------------------------
\* unsubscribe() of an id the registry does not hold
\* ------------------------------------------------------------------------

\* the step is a call of unsubscribe()
UnsubscribeCalled == unsubscribeResult'.call # unsubscribeResult.call

\* C21: unsubscribe(id) for an id that is not registered (never subscribed,
\* already unsubscribed, or issued before a disconnect) does not throw,
\* leaves the registry unchanged and returns the current subscription count.
C21_UnsubscribeUnknownNoOp ==
  [][(UnsubscribeCalled /\ unsubscribeResult'.id \notin subscriptions)
       => /\ unsubscribeResult'.outcome = "ok"
          /\ subscriptions' = subscriptions
          /\ subCounter' = subCounter
          /\ unsubscribeResult'.size = Cardinality(subscriptions)]_vars

\* unsubscribe() has returned for an id that was issued before a disconnect
\* and is not registered in the session that followed, whose registry holds
\* another subscription
C21_Witness ==
  /\ unsubscribeResult.outcome = "ok"
  /\ unsubscribeResult.size = 1
  /\ Cardinality(subscriptions) = 1
  /\ unsubscribeResult.id \notin subscriptions
  /\ \E h \in 1..Len(issued) :
       /\ issued[h].id = unsubscribeResult.id
       /\ issued[h].session < session
  /\ \A h \in 1..Len(issued) :
       issued[h].session = session => issued[h].id # unsubscribeResult.id

\* ------------------------------------------------------------------------
\* The forwarding tasks of subscribe(): for await (const m of sub)
\* ------------------------------------------------------------------------

\* iterations of the forwarding tasks in one run
MaxFwdDeliveries == 3

\* iterations of the forwarding tasks in one run with unsubscribe()
MaxCancelDeliveries == 2

\* subscribe() calls that return an id in one run of the forwarding tasks
MaxFwdSubscribes == 2

\* the handle at position h of issued still yields messages: it belongs to
\* the connection in use, that connection is not closed, and the handle was
\* not cancelled
Live(h) ==
  /\ nc \in {"open", "closing"}
  /\ issued[h].session = session
  /\ h \notin closedSubs

\* the events with ids from..(from + n - 1) that the handle at position h
\* of issued yields
SubEvents(h, from, n) ==
  [i \in 1..n |-> [id |-> from + i - 1, isRpc |-> FALSE, subject |-> "s1",
                   data |-> PlainText, sub |-> h]]

\* the forwarding task of one subscription runs n iterations: each decodes
\* the message and calls onMessage, which is ui.renderMessage
Forward(max, h, n) ==
  /\ Live(h)
  /\ deliveries < max
  /\ LET evs == SubEvents(h, nextEvent, n)
         tags == [i \in 1..n |-> [id |-> evs[i].id, sub |-> h]]
     IN  /\ Install(renderAll(UiState, evs))
         /\ forwarded' = forwarded \o tags
         /\ latePushes' = IF h \in returned
                          THEN latePushes \cup Range(tags)
                          ELSE latePushes
  /\ nextEvent' = nextEvent + n
  /\ deliveries' = deliveries + 1
  /\ flushRan' = FALSE
  /\ UNCHANGED <<streamVars, exported, subscribeResult, unsubscribeResult,
                 tailVars,
                 closedSubs, returned>>
  /\ UNCHANGED <<natsVars, kvVars, pausedPushes, discarded, shown,
                 loopStopped, issued, session>>

Forwarding ==
  \E h \in 1..Len(issued) : \E n \in BurstSizes :
    Forward(MaxFwdDeliveries, h, n)

SubscribeFwd == SubscribeUpTo(MaxFwdSubscribes)

UnsubscribeFwd == UnsubscribeUpTo(MaxFwdSubscribes)

\* the forwarding tasks and the render loop of one connection
NextFwd ==
  \/ ConnectClick
  \/ SubscribeFwd
  \/ Forwarding
  \/ RafFire
  \/ TimerFire

SpecFwd == Init /\ [][NextFwd]_vars

ForwardingSmall ==
  \E h \in 1..Len(issued) : Forward(MaxCancelDeliveries, h, SmallBurst)

\* the forwarding tasks under unsubscribe() and the loss of the connection
NextCancel ==
  \/ ConnectClick
  \/ ConnectionLost
  \/ SubscribeFwd
  \/ UnsubscribeFwd
  \/ ForwardingSmall

SpecCancel == Init /\ [][NextCancel]_vars

\* the subscription whose forwarding task handled the event with this id;
\* the forwarding tasks hand out the ids 1, 2, ... in the order of arrival
SubOf(id) == forwarded[id].sub

\* the ids of a sequence of ids increase
Increasing(ids) == \A i \in 1..(Len(ids) - 1) : ids[i] < ids[i + 1]

\* the ids of the events of subscription h in a sequence of tagged ids
IdsOfSub(tagged, h) ==
  Ids(SelectSeq(tagged, LAMBDA e : e.sub = h))

\* C22: for a single subscription, its events are pushed into the buffer,
\* recorded in the history and drained in the arrival order of the
\* underlying stream, whatever the interleaving with events of other
\* subscriptions.
C22_PerSubscriptionOrder ==
  \A h \in 1..Len(issued) :
    /\ Increasing(IdsOfSub(msgBuffer, h))
    /\ Increasing(IdsOfSub([i \in 1..Len(logHistory) |->
                              logHistory[i].received], h))
    /\ Increasing(IdsOfSub([i \in 1..Len(shown) |->
                              [id |-> shown[i], sub |-> SubOf(shown[i])]], h))

\* events of one subscription were drained before and after events of
\* another one, over more than one drain tick
C22_Witness ==
  /\ \E j \in 2..Len(shown) :
       /\ SubOf(shown[j]) # SubOf(shown[j - 1])
       /\ \E k \in (j + 1)..Len(shown) :
            SubOf(shown[k]) = SubOf(shown[j - 1])
  /\ Len(shown) > BATCH_SIZE
  /\ flushRan

DEFAULT_RPC_TIMEOUT_MS == 2000

\* the values parseInt(els.reqTimeout.value) takes; 0 stands for every
\* input that is falsy after parseInt (empty, "0", not a number)
TimeoutInputs == {0, 500}

\* deliveries and replies in one run of the request handler
MaxReqDeliveries == 2

\* the messages of the errors nc.request() is rejected with
LibraryErrors == {"timeout", "no responders", "connection closed"}

\* error.message.includes("timeout")
IncludesTimeout(message) == message = "timeout"

NoRequest == [pc |-> "none", timeout |-> 0]

\* parseInt(els.reqTimeout.value) || DEFAULT_RPC_TIMEOUT_MS
EffectiveTimeout(input) == IF input = 0 THEN DEFAULT_RPC_TIMEOUT_MS ELSE input

\* mutant: every rejection is reported as a failed request
requestErrorGeneric(message, timeout) ==
  [text |-> "Request failed", ms |-> 0, cause |-> message]

\* the catch block of request(): the error thrown for a rejection
requestError(message, timeout) ==
  IF IncludesTimeout(message)
  THEN [text |-> "Request timeout after", ms |-> timeout, cause |-> message]
  ELSE [text |-> "Request failed", ms |-> 0, cause |-> message]

\* ui.showToast(err.message, "error") in the catch block of handleRequest
ShowToast(err) ==
  toast' = [text |-> err.text, ms |-> err.ms, cause |-> err.cause,
            call |-> 1 - toast.call]

\* btnReq click: handleRequest up to its await; request() throws
\* "Not Connected" without a connection, which ends the handler
RequestClick(input) ==
  /\ ~btnReqDisabled
  /\ IF NotConnected(nc)
     THEN /\ ShowToast([text |-> "Not Connected", ms |-> 0,
                        cause |-> "not connected"])
          /\ UNCHANGED <<btnReqDisabled, pendingRequest>>
     ELSE /\ btnReqDisabled' = TRUE
          /\ pendingRequest' = [pc |-> "awaiting",
                                timeout |-> EffectiveTimeout(input)]
          /\ UNCHANGED toast
  /\ flushRan' = FALSE
  /\ UNCHANGED <<streamVars, exported, subscribeResult, regVars, rendered,
                 payloadVars, lastVars>>
  /\ UNCHANGED <<uiVars, natsVars, kvVars, histVars>>

\* nc.request() resolves: the reply is rendered with isRpc = true, then the
\* finally block enables the button
RequestReplies ==
  /\ pendingRequest.pc = "awaiting"
  /\ nc = "open"
  /\ deliveries < MaxReqDeliveries
  /\ LET ev == [id |-> nextEvent, isRpc |-> TRUE, subject |-> "s1",
                data |-> PlainText]
     IN  /\ Install(renderMessage(UiState, ev))
         /\ pausedPushes' = IF isPaused THEN pausedPushes \cup {ev}
                                        ELSE pausedPushes
  /\ nextEvent' = nextEvent + 1
  /\ deliveries' = deliveries + 1
  /\ btnReqDisabled' = FALSE
  /\ pendingRequest' = NoRequest
  /\ flushRan' = FALSE
  /\ UNCHANGED <<streamVars, exported, subscribeResult, regVars, toast,
                 rendered, payloadVars, lastVars>>
  /\ UNCHANGED <<natsVars, kvVars, discarded, shown, loopStopped, issued,
                 session>>

\* nc.request() is rejected: request() throws its own error, handleRequest
\* shows it and the finally block enables the button
RequestFails(message) ==
  /\ pendingRequest.pc = "awaiting"
  /\ ShowToast(requestError(message, pendingRequest.timeout))
  /\ btnReqDisabled' = FALSE
  /\ pendingRequest' = NoRequest
  /\ flushRan' = FALSE
  /\ UNCHANGED <<streamVars, exported, subscribeResult, regVars, rendered,
                 payloadVars, lastVars>>
  /\ UNCHANGED <<uiVars, natsVars, kvVars, histVars>>

DeliverReq == DeliverUpTo(MaxReqDeliveries, SmallBurst)

NextReq ==
  \/ ConnectClick
  \/ SubscribeFwd
  \/ \E input \in TimeoutInputs : RequestClick(input)
  \/ RequestReplies
  \/ \E message \in LibraryErrors : RequestFails(message)
  \/ DeliverReq
  \/ RafFire

SpecReq == Init /\ [][NextReq]_vars

\* the step is the rejection of a request by its timeout
RequestTimedOut ==
  /\ pendingRequest.pc = "awaiting"
  /\ toast'.call # toast.call
  /\ toast'.cause = "timeout"

\* C25: a request/reply that times out fails with an error that names the
\* timeout value; no RenderEvent is pushed for it (buffer and log history
\* unchanged), the registry is unchanged, and the request control becomes
\* usable again.
C25_TimeoutLeavesNoEvent ==
  [][RequestTimedOut
       => /\ toast'.text = "Request timeout after"
          /\ toast'.ms = pendingRequest.timeout
          /\ msgBuffer' = msgBuffer
          /\ logHistory' = logHistory
          /\ subscriptions' = subscriptions
          /\ subCounter' = subCounter
          /\ btnReqDisabled' = FALSE]_vars

\* a request with the default timeout has timed out while the buffer, the
\* history and the registry were not empty, and the button is enabled
C25_Witness ==
  /\ toast.cause = "timeout"
  /\ toast.ms = DEFAULT_RPC_TIMEOUT_MS
  /\ pendingRequest = NoRequest
  /\ ~btnReqDisabled
  /\ msgBuffer # <<>>
  /\ logHistory # <<>>
  /\ subscriptions # {}

\* ------------------------------------------------------------------------
\* One drain tick: a flushBuffer callback
\* ------------------------------------------------------------------------

\* the step is a flushBuffer callback run by the host
DrainTick == flushRan'

\* the number of events a tick takes from a buffer of n events
Taken(n) == IF n < BATCH_SIZE THEN n ELSE BATCH_SIZE

\* C26: a drain tick on a buffer holding n events removes exactly the
\* min(n, 50) oldest events and leaves the remaining n - min(n, 50) events
\* in the buffer in their original order; a tick on an empty buffer renders
\* nothing and changes neither buffer nor rendered list.
C26_TickTakesOldestBatch ==
  [][DrainTick =>
       LET n == Len(msgBuffer)
       IN  /\ msgBuffer' = SubSeq(msgBuffer, Taken(n) + 1, n)
           /\ shown' = shown \o Ids(SubSeq(msgBuffer, 1, Taken(n)))
           /\ n = 0 => messages' = messages]_vars

\* a tick has taken a full batch and has left the newest events of the
\* backlog in the buffer
C26_Witness ==
  /\ flushRan
  /\ msgBuffer # <<>>
  /\ Len(shown) >= BATCH_SIZE
  /\ msgBuffer[1].id = shown[Len(shown)] + 1

\* C27: after each drain tick exactly one next drain is requested: on the
\* zero-delay timer if the buffer is still non-empty after the tick,
\* otherwise on the host's paint callback; under sustained backlog every
\* tick is followed by a zero-delay tick until the buffer is empty.
C27_OneNextDrainPerTick ==
  [][DrainTick =>
       /\ PendingDrains' = PendingDrains
       /\ IF msgBuffer' # <<>>
          THEN /\ timerPending' > 0
               /\ timerPending' >= timerPending
               /\ Cardinality(rafPending') <= Cardinality(rafPending)
               /\ renderLoopId' = renderLoopId
          ELSE /\ timerPending' <= timerPending
               /\ Cardinality(rafPending') >= Cardinality(rafPending)
               /\ renderLoopId' \in rafPending']_vars

\* a tick on a backlog has left events in the buffer and the only drain
\* requested is the zero-delay timer
C27_Witness ==
  /\ flushRan
  /\ msgBuffer # <<>>
  /\ timerPending = 1
  /\ rafPending = {}

\* C28: every admitted event is consumed at most once: over any
\* interleaving of pushes, drain ticks, start, stop and clear, no event is
\* rendered twice and no event is both rendered and still in the buffer.
C28_ConsumedAtMostOnce ==
  /\ Cardinality(Range(rendered)) = Len(rendered)
  /\ Range(rendered) \cap Range(Ids(msgBuffer)) = {}
  /\ Cardinality(Range(Ids(msgBuffer))) = Len(msgBuffer)

\* events were rendered over two ticks, before and after a clear, and the
\* buffer holds events that were pushed later
C28_Witness ==
  /\ Len(rendered) > BATCH_SIZE
  /\ Len(shown) < Len(rendered)
  /\ shown # <<>>
  /\ msgBuffer # <<>>
  /\ discarded # {}

\* ------------------------------------------------------------------------
\* renderMessage: one admission policy for the history and the buffer
\* ------------------------------------------------------------------------

\* the step hands events to renderMessage
Pushes == nextEvent' # nextEvent

\* the ids of the elements a step has appended to a sequence
Appended(before, after) == Ids(SubSeq(after, Len(before) + 1, Len(after)))

\* C29: the log history and the buffer share one admission policy: every
\* renderMessage call either appends the event to both the log history and
\* the buffer or to neither, so the sequence of events ever recorded equals
\* the sequence of events ever admitted to the buffer.
C29_HistoryAndBufferAdmitTogether ==
  [][Pushes =>
       /\ Appended(logHistory, logHistory') = Appended(msgBuffer, msgBuffer')
       /\ SubSeq(logHistory', 1, Len(logHistory)) = logHistory
       /\ SubSeq(msgBuffer', 1, Len(msgBuffer)) = msgBuffer
       /\ \A e \in pausedPushes' \ pausedPushes :
            e.isRpc <=> e.id \in Range(Ids(msgBuffer'))]_vars

\* while paused, a reply was admitted to the history and to the buffer and
\* a subscription message to neither, and nothing was drained since
C29_Witness ==
  /\ \E e \in pausedPushes :
       /\ e.isRpc
       /\ e.id \in Range(Ids(msgBuffer))
       /\ e.id \in Range(Ids(logHistory))
  /\ \E e \in pausedPushes :
       /\ ~e.isRpc
       /\ e.id \notin Range(Ids(msgBuffer))
       /\ e.id \notin Range(Ids(logHistory))
  /\ Ids(msgBuffer) = Ids(logHistory)

\* ------------------------------------------------------------------------
\* getStreamMessageRange: payloads that are not text
\* ------------------------------------------------------------------------

\* a message whose payload is not UTF-8 text is published to the stream
PublishBinary ==
  \E i \in (1..MaxSeq) \ (binary \cup missing) :
    /\ viewPc = "idle"
    /\ binary' = binary \cup {i}
    /\ flushRan' = FALSE
    /\ UNCHANGED <<streamVars, exported, subscribeResult, regVars, reqVars,
                   rendered, viewData>>
    /\ UNCHANGED <<uiVars, natsVars, kvVars, histVars>>

NextPayload ==
  \/ KvConnect
  \/ DeleteMessage
  \/ PublishBinary
  \/ ViewMessages
  \/ AllReadsComplete
  \/ RangeReturns

SpecPayload == Init /\ [][NextPayload]_vars

\* C30: a stream entry whose payload cannot be decoded as text still
\* appears in the getStreamMessageRange result at its sequence position,
\* carrying a placeholder annotation as payload (same policy as for
\* subscriptions).
C30_BinaryEntryGetsPlaceholder ==
  (viewPc = "idle" /\ streamView.kind = "shown") =>
    /\ DOMAIN viewData = Range(streamView.msgs)
    /\ \A i \in Fetched(reads) : i \in Range(streamView.msgs)
    /\ \A i \in DOMAIN viewData :
         viewData[i].payload = "invalid utf-8"
           => viewData[i].data = BinaryPlaceholder

\* ------------------------------------------------------------------------
\* disconnect()
\* ------------------------------------------------------------------------

\* C24: after disconnect() completes, on its normal path and on its error
\* path, the subscription registry is empty, the count is 0, and module
\* state holds no connection, KV handle or watcher.
C24_DisconnectLeavesNothing ==
  nc = "null" =>
    /\ subscriptions = {}
    /\ subCounter = 0
    /\ kv = "none"
    /\ activeKvWatcher = NULL

\* ------------------------------------------------------------------------
\* The forwarding task and payloads that are not text
\* ------------------------------------------------------------------------

\* iterations of the forwarding tasks in one run with payloads of both kinds
MaxBinaryDeliveries == 3

\* m.data as it arrives: bytes that are UTF-8 text, or bytes that are not
WirePayloads == {"utf-8", "invalid utf-8"}

\* new TextDecoder(): constructed without { fatal: true }
fatal == FALSE

\* decoder.decode(m.data) throws (a TypeError) only in fatal mode
DecodeThrows(payload) == fatal /\ payload = "invalid utf-8"

\* the data argument the forwarding task passes to onMessage: the decoded
\* text from the try block, the placeholder from the catch block
ForwardedData(payload) ==
  IF DecodeThrows(payload) THEN BinaryPlaceholder ELSE decode(payload)

\* one iteration of the forwarding task of the handle at position h of
\* issued for a message with the given bytes; bytes labels the event with
\* what arrived on the wire
ForwardBytes(h, payload) ==
  /\ Live(h)
  /\ deliveries < MaxBinaryDeliveries
  /\ LET ev == [id |-> nextEvent, isRpc |-> FALSE, subject |-> "s1",
                data |-> [raw |-> ForwardedData(payload), first |-> "other",
                          parsed |-> "none"],
                sub |-> h, bytes |-> payload]
     IN  /\ Install(renderMessage(UiState, ev))
         /\ forwarded' = Append(forwarded, [id |-> ev.id, sub |-> h])
         /\ latePushes' = IF h \in returned
                          THEN latePushes \cup {[id |-> ev.id, sub |-> h]}
                          ELSE latePushes
  /\ nextEvent' = nextEvent + 1
  /\ deliveries' = deliveries + 1
  /\ flushRan' = FALSE
  /\ UNCHANGED <<streamVars, exported, subscribeResult, unsubscribeResult,
                 tailVars, closedSubs, returned>>
  /\ UNCHANGED <<natsVars, kvVars, pausedPushes, discarded, shown,
                 loopStopped, issued, session>>

ForwardingBytes ==
  \E h \in 1..Len(issued) : \E payload \in WirePayloads :
    ForwardBytes(h, payload)

\* subscriptions of one connection receiving text and non-text payloads
NextBinary ==
  \/ ConnectClick
  \/ SubscribeFwd
  \/ ForwardingBytes
  \/ RafFire

SpecBinary == Init /\ [][NextBinary]_vars

\* C31: a subscription message whose payload fails text decoding (a
\* non-text payload) is forwarded as one event whose payload is the
\* placeholder "[Binary Data: N bytes]"; the subscription is not ended by
\* it: its registry entry stays.
C31_UndecodableForwardedAsPlaceholder ==
  /\ \A i \in 1..Len(logHistory) :
       logHistory[i].received.bytes = "invalid utf-8"
         => logHistory[i].received.data.raw = BinaryPlaceholder
  /\ Cardinality(Range(Ids(logHistory))) = Len(logHistory)
  /\ \A i \in 1..Len(forwarded) :
       issued[forwarded[i].sub].id \in subscriptions

\* ------------------------------------------------------------------------
\* Log history: who empties it
\* ------------------------------------------------------------------------

\* every handler that touches the connection, the pause flag or the render
\* loop, with deliveries in between
NextLog ==
  \/ ConnectClick
  \/ DisconnectClick
  \/ CloseComplete
  \/ ConnectionLost
  \/ StatusDisconnect
  \/ StatusReconnect
  \/ DeliverSession
  \/ TogglePause
  \/ ClearLogsClick
  \/ RafFire
  \/ TimerFire

SpecLog == Init /\ [][NextLog]_vars

\* the step changes the connection (connect, disconnect, loss, reconnect),
\* toggles the pause or stops the render loop
ConnectionPauseOrStop ==
  \/ nc' # nc
  \/ isPaused' # isPaused
  \/ (renderLoopId # NULL /\ renderLoopId' = NULL)

\* C32: the log history is emptied only by the explicit clear-logs action:
\* disconnect, connection loss, reconnect, pause/unpause and a stop of the
\* render loop leave the log history unchanged.
C32_HistoryEmptiedOnlyByClear ==
  [][/\ ConnectionPauseOrStop => logHistory' = logHistory
     /\ (logHistory # <<>> /\ logHistory' = <<>>) => ClearLogsClick]_vars

\* the history holds entries after the connection was closed by a
\* disconnect, with the log paused and the render loop stopped
C32_Witness ==
  /\ nc = "null"
  /\ logHistory # <<>>
  /\ isPaused
  /\ loopStopped
  /\ renderLoopId = NULL

\* ------------------------------------------------------------------------
\* The key set when the change feed ends
\* ------------------------------------------------------------------------

\* the server closes the connection: every change feed of the connection
\* ends and every request still awaited on it is rejected; closed()
\* reports 'disconnected' and nc stays set but isClosed()
KvConnectionLost ==
  /\ nc = "open"
  /\ nc' = "closed"
  /\ watchers' = [w \in 1..Len(watchers) |->
                    [watchers[w] EXCEPT !.active = FALSE]]
  /\ calls' = <<>>
  /\ flushRan' = FALSE
  /\ reads' = [i \in DOMAIN reads |->
                 IF reads[i] = "pending" THEN "failed" ELSE reads[i]]
  /\ UNCHANGED <<missing, viewPc, streamView, rangeArgs, snapshot,
                 outOfOrder, afterStreamVars>>
  /\ UNCHANGED <<uiVars, subCounter, subscriptions, kv, activeKvWatcher,
                 kvKeys, currentKvBucket, currentKvWatcher, lastOpSinceOpen,
                 lastOpSinceReset, kvKeyList, kvEvents, nextEvent,
                 deliveries, pausedPushes, discarded, shown, loopStopped,
                 issued, session>>

\* the KV handlers with both ends of a connection: disconnect and drop
NextFeed ==
  \/ KvConnect
  \/ KvDisconnect
  \/ KvCloseComplete
  \/ KvConnectionLost
  \/ \E b \in Buckets \cup {"none"} : BucketChange(b)
  \/ \E c \in 1..Len(calls) : OpenResolves(c)
  \/ \E c \in 1..Len(calls) : CallFails(c)
  \/ \E c \in 1..Len(calls) : WatchResolves(c)
  \/ \E w \in 1..Len(watchers), key \in Keys, op \in Operations :
       KvEvent(w, key, op)
  \/ \E listed \in BOOLEAN : LoadKvBuckets(listed)

SpecFeed == Init /\ [][NextFeed]_vars

\* the step is a call of handleKvBucketChange
BucketChanges == \E b \in Buckets \cup {"none"} : BucketChange(b)

RpcPushedWhilePaused ==
  isPaused /\ \E e \in pausedPushes' \ pausedPushes : e.isRpc

\* the positions of a buffer that hold a reply pushed while paused
PausedReplies(buf) ==
  {i \in 1..Len(buf) : buf[i].isRpc /\ buf[i] \in pausedPushes}

\* the ids the step hands to the rendered list
DrainedNow == Range(SubSeq(shown', Len(shown) + 1, Len(shown')))

\* renderMessage with isRpc = true while paused appends the event to the
\* log history and to the buffer
PausedRpcAdmitted ==
  RpcPushedWhilePaused
    => /\ Appended(logHistory, logHistory') = <<nextEvent>>
       /\ Appended(msgBuffer, msgBuffer') = <<nextEvent>>
       /\ msgBuffer'[Len(msgBuffer')].isRpc

\* C34 (as stated): pause gates only MSG-kind events: renderMessage called
\* with isRpc = true while paused still appends the event to the log
\* history and to the buffer, and the event is rendered by the next drain.
C34_PausedRpcRenderedByNextDrain ==
  [][/\ PausedRpcAdmitted
     /\ DrainTick =>
          \A i \in PausedReplies(msgBuffer) :
            msgBuffer[i].id \in DrainedNow]_vars

\* C34 (amended): renderMessage called with isRpc = true while paused
\* still appends the event to the log history and to the buffer; a drain
\* renders the event when fewer than BATCH_SIZE events are ahead of it in
\* the buffer and otherwise leaves it in the buffer, BATCH_SIZE places
\* nearer to the front.
C34_PausedRpcRenderedInTurn ==
  [][/\ PausedRpcAdmitted
     /\ DrainTick =>
          \A i \in PausedReplies(msgBuffer) :
            IF i <= BATCH_SIZE
            THEN msgBuffer[i].id \in DrainedNow
            ELSE msgBuffer'[i - BATCH_SIZE] = msgBuffer[i]]_vars

\* a reply pushed while paused has been rendered by a drain during the
\* pause
C34_Witness ==
  /\ isPaused
  /\ flushRan
  /\ \E e \in pausedPushes :
       /\ e.isRpc
       /\ e.id \in Range(shown)
       /\ e.id \in Range(Ids(logHistory))

\* ------------------------------------------------------------------------
\* Connections: handleConnect of main.js, connectToNats and disconnect of
\* nats-client.js, setConnectionState of ui.js
\* ------------------------------------------------------------------------

\* handleConnect calls in one run
MaxConnCalls == 3

\* every variable but the ones of this section
beforeConnVars ==
  <<uiVars, natsVars, kvVars, histVars, streamVars, exported,
    subscribeResult, regVars, btnReqDisabled, pendingRequest, toast,
    rendered, payloadVars, keyVars, handleVars>>

\* the controls setConnectionState writes that the model follows
ConnUi == [disabled |-> btnConnectDisabled, text |-> statusText]

\* setConnectionState(state): 'connected' leaves btnConnect.disabled as it
\* is, 'reconnecting' sets it, every other state clears it
setConnectionState(ui, state) ==
  IF state = "connected" THEN [ui EXCEPT !.text = "Connected"]
  ELSE IF state = "reconnecting"
  THEN [ui EXCEPT !.text = "Reconnecting...", !.disabled = TRUE]
  ELSE [ui EXCEPT !.text = "Disconnected", !.disabled = FALSE]

InstallConnUi(ui) ==
  /\ btnConnectDisabled' = ui.disabled
  /\ statusText' = ui.text

\* nats.isConnected(): nc && !nc.isClosed()
ncIsConnected == ncRef # NULL /\ conns[ncRef] # "closed"

\* initializeApp with the connect parameter in the URL:
\* setTimeout(() => handleConnect(), 100)
HandleUrlParameters ==
  /\ autoConnect = "none"
  /\ connStarted = 0
  /\ autoConnect' = "pending"
  /\ UNCHANGED <<conns, ncRef, connCalls, connStarted, btnConnectDisabled,
                 statusText>>
  /\ UNCHANGED beforeConnVars

\* handleConnect, from a click on btnConnect or from the timer, up to its
\* first await that waits for the network. Connected: the disconnect flow,
\* up to await nc.close(). Otherwise the connect flow: "Connecting...",
\* the button is disabled, connectToNats runs disconnect() (close() of a
\* connection that is closed already resolves at once) and awaits
\* wsconnect()
handleConnect(byTimer) ==
  /\ connStarted < MaxConnCalls
  /\ IF byTimer
     THEN autoConnect = "pending" /\ autoConnect' = "fired"
     ELSE ~btnConnectDisabled /\ UNCHANGED autoConnect
  /\ connStarted' = connStarted + 1
  /\ IF ncIsConnected
     THEN /\ connCalls' = Append(connCalls,
                                 [pc |-> "disconnect", conn |-> ncRef])
          /\ UNCHANGED <<ncRef, btnConnectDisabled, statusText>>
     ELSE /\ connCalls' = Append(connCalls,
                                 [pc |-> "connecting", conn |-> NULL])
          /\ ncRef' = NULL
          /\ btnConnectDisabled' = TRUE
          /\ statusText' = "Connecting..."
  /\ UNCHANGED conns
  /\ UNCHANGED beforeConnVars

\* wsconnect() resolves in call c: nc = the new connection, monitoring is
\* set up, connectToNats returns; handleConnect shows 'connected' and its
\* finally block enables the button
WsconnectResolves(c) ==
  /\ connCalls[c].pc = "connecting"
  /\ conns' = Append(conns, "open")
  /\ ncRef' = Len(conns) + 1
  /\ InstallConnUi([setConnectionState(ConnUi, "connected")
                      EXCEPT !.disabled = FALSE])
  /\ connCalls' = RemoveAt(connCalls, c)
  /\ UNCHANGED <<connStarted, autoConnect>>
  /\ UNCHANGED beforeConnVars

\* wsconnect() is rejected in call c: the catch block of connectToNats
\* runs disconnect(), which awaits close() of whatever nc refers to by now;
\* with nc null connectToNats throws at once, handleConnect shows
\* 'disconnected' and its finally block enables the button
WsconnectFails(c) ==
  /\ connCalls[c].pc = "connecting"
  /\ IF ncRef # NULL
     THEN /\ connCalls' = [connCalls EXCEPT ![c] =
                             [pc |-> "failclose", conn |-> ncRef]]
          /\ UNCHANGED <<btnConnectDisabled, statusText>>
     ELSE /\ connCalls' = RemoveAt(connCalls, c)
          /\ InstallConnUi(setConnectionState(ConnUi, "disconnected"))
  /\ UNCHANGED <<conns, ncRef, connStarted, autoConnect>>
  /\ UNCHANGED beforeConnVars

\* nc.close() resolves in call c: the connection is closed (closed()
\* reports 'disconnected'), disconnect() goes on with nc = null, and
\* handleConnect shows 'disconnected' (after the disconnect flow and in
\* the catch block of the connect flow)
CloseResolves(c) ==
  /\ connCalls[c].pc \in {"disconnect", "failclose"}
  /\ conns' = [conns EXCEPT ![connCalls[c].conn] = "closed"]
  /\ ncRef' = NULL
  /\ InstallConnUi(setConnectionState(ConnUi, "disconnected"))
  /\ connCalls' = RemoveAt(connCalls, c)
  /\ UNCHANGED <<connStarted, autoConnect>>
  /\ UNCHANGED beforeConnVars

\* nc.status() of connection i reports "disconnect": onStatusChange
\* shows 'reconnecting'
ConnStatusDisconnect(i) ==
  /\ conns[i] = "open"
  /\ conns' = [conns EXCEPT ![i] = "reconnecting"]
  /\ InstallConnUi(setConnectionState(ConnUi, "reconnecting"))
  /\ UNCHANGED <<ncRef, connCalls, connStarted, autoConnect>>
  /\ UNCHANGED beforeConnVars

\* nc.status() of connection i reports "reconnect": onStatusChange shows
\* 'connected'
ConnStatusReconnect(i) ==
  /\ conns[i] = "reconnecting"
  /\ conns' = [conns EXCEPT ![i] = "open"]
  /\ InstallConnUi(setConnectionState(ConnUi, "connected"))
  /\ UNCHANGED <<ncRef, connCalls, connStarted, autoConnect>>
  /\ UNCHANGED beforeConnVars

\* connection i is closed by the server or gives up reconnecting:
\* closed() reports 'disconnected'; nc is left as it is
ConnDrop(i) ==
  /\ conns[i] # "closed"
  /\ conns' = [conns EXCEPT ![i] = "closed"]
  /\ InstallConnUi(setConnectionState(ConnUi, "disconnected"))
  /\ UNCHANGED <<ncRef, connCalls, connStarted, autoConnect>>
  /\ UNCHANGED beforeConnVars

NextConn ==
  \/ HandleUrlParameters
  \/ \E byTimer \in BOOLEAN : handleConnect(byTimer)
  \/ \E c \in 1..Len(connCalls) : WsconnectResolves(c)
  \/ \E c \in 1..Len(connCalls) : WsconnectFails(c)
  \/ \E c \in 1..Len(connCalls) : CloseResolves(c)
  \/ \E i \in 1..Len(conns) : ConnStatusDisconnect(i)
  \/ \E i \in 1..Len(conns) : ConnStatusReconnect(i)
  \/ \E i \in 1..Len(conns) : ConnDrop(i)

SpecConn == Init /\ [][NextConn]_vars

\* C35: at most one connection is open at a time: for every interleaving
\* of connectToNats and disconnect calls, every connection that was opened
\* is either the current nc or has been closed.
C35_OpenedIsCurrentOrClosed ==
  \A i \in 1..Len(conns) : conns[i] # "closed" => ncRef = i

\* a connect attempt is in progress in some handleConnect call
ConnectInProgress ==
  \E c \in 1..Len(connCalls) : connCalls[c].pc \in {"connecting", "failclose"}

\* C36: whenever the UI shows the state 'connected' and no connect attempt
\* is in progress, the Connect/Disconnect button is enabled; in particular
\* after the status sequence 'reconnecting' then 'connected' the user can
\* still disconnect.
C36_ConnectedButtonEnabled ==
  (statusText = "Connected" /\ ~ConnectInProgress) => ~btnConnectDisabled

\* ------------------------------------------------------------------------
\* KV key editor: selectKeyWrapper and handleKvPut of main.js
\* ------------------------------------------------------------------------

\* selectKeyWrapper calls in one run (key clicks and the call after a Put)
MaxKeySelects == 3

\* every variable but the ones of this section
beforeKeyVars ==
  <<uiVars, natsVars, kvVars, histVars, streamVars, exported,
    subscribeResult, regVars, btnReqDisabled, pendingRequest, toast,
    rendered, payloadVars, connVars, handleVars>>

\* selectKeyWrapper(key) up to await nats.getKvValue(key): the key field
\* shows the key and the editor shows "Loading..."
selectKeyWrapper(key) ==
  /\ kvKeyInput' = key
  /\ kvValueInput' = "Loading..."
  /\ UNCHANGED readResult
  /\ keyReads' = Append(keyReads, [key |-> key, pc |-> "value"])
  /\ keySelects' = keySelects + 1

\* a click on a key of the key list (a bucket is open throughout)
SelectKey(key) ==
  /\ keySelects < MaxKeySelects
  /\ selectKeyWrapper(key)
  /\ UNCHANGED kvStore
  /\ UNCHANGED beforeKeyVars

\* getKvValue resolves in call c: the editor gets the value read, and the
\* call goes on to await getKvHistory
ValueResolves(c) ==
  /\ keyReads[c].pc = "value"
  /\ kvValueInput' = kvStore[keyReads[c].key]
  /\ readResult' = [readResult EXCEPT ![keyReads[c].key] =
                                        kvStore[keyReads[c].key]]
  /\ keyReads' = [keyReads EXCEPT ![c].pc = "history"]
  /\ UNCHANGED <<kvKeyInput, kvStore, keySelects>>
  /\ UNCHANGED beforeKeyVars

\* getKvHistory resolves in call c: the history list is rendered
HistoryResolves(c) ==
  /\ keyReads[c].pc = "history"
  /\ keyReads' = RemoveAt(keyReads, c)
  /\ UNCHANGED <<kvKeyInput, kvValueInput, kvStore, readResult, keySelects>>
  /\ UNCHANGED beforeKeyVars

\* getKvValue or getKvHistory is rejected in call c: the catch block
\* empties the editor
KeyReadFails(c) ==
  /\ kvValueInput' = ""
  /\ readResult' = [readResult EXCEPT ![keyReads[c].key] = ""]
  /\ keyReads' = RemoveAt(keyReads, c)
  /\ UNCHANGED <<kvKeyInput, kvStore, keySelects>>
  /\ UNCHANGED beforeKeyVars

\* btnKvPut click with a key in the key field: putKvValue stores the
\* editor's text under that key, then selectKeyWrapper(key) reloads it
handleKvPut ==
  /\ kvKeyInput # "none"
  /\ keySelects < MaxKeySelects
  /\ kvStore' = [kvStore EXCEPT ![kvKeyInput] = kvValueInput]
  /\ selectKeyWrapper(kvKeyInput)
  /\ UNCHANGED beforeKeyVars

NextKeys ==
  \/ \E key \in Keys : SelectKey(key)
  \/ \E c \in 1..Len(keyReads) : ValueResolves(c)
  \/ \E c \in 1..Len(keyReads) : HistoryResolves(c)
  \/ \E c \in 1..Len(keyReads) : KeyReadFails(c)
  \/ handleKvPut

SpecKeys == Init /\ [][NextKeys]_vars

\* C37: after any sequence of KV key selections, once all pending reads
\* have completed, the value shown in the value editor is the value read
\* for the key shown in the key field (the last selected key), so that a
\* following Put stores the displayed value under the key it was read for.
C37_EditorShowsValueOfShownKey ==
  (keyReads = <<>> /\ kvKeyInput # "none")
    => kvValueInput = readResult[kvKeyInput]

\* ------------------------------------------------------------------------
\* Rendered list and log history
\* ------------------------------------------------------------------------

\* C38: every event currently shown in the rendered message list is also
\* contained in the log history (and therefore in an export taken at that
\* moment), for any backlog size in the buffer and any sequence of pushes
\* and drain ticks without a clear.
C38_RenderedWithinHistory ==
  LET recorded == Range(Ids(logHistory))
  IN  \A i \in 1..Len(messages) : messages[i].id \in recorded

\* ------------------------------------------------------------------------
\* The subscription registry within one connection session
\* ------------------------------------------------------------------------

\* the ids subscribe() returned in the current session, in order
SessionIds ==
  Ids(SelectSeq(issued, LAMBDA e : e.session = session))

\* the step is a subscribe() call that returned
SubscribeReturned ==
  subscribeResult' # subscribeResult /\ subscribeResult'.outcome = "ok"

\* the step is an unsubscribe() call
UnsubscribeReturned == unsubscribeResult' # unsubscribeResult

\* C39: within one connection session, subscribe returns strictly
\* increasing ids, an id is never reused after unsubscribe, every registered
\* id lies in 1..subCounter, and the count returned by subscribe and
\* unsubscribe always equals the number of subscriptions currently
\* registered.
C39_RegistryWithinSession ==
  [][/\ Increasing(SessionIds')
     /\ subscriptions' \subseteq 1..subCounter'
     /\ SubscribeReturned =>
          /\ subscribeResult'.size = Cardinality(subscriptions')
          /\ subscribeResult'.id \notin Range(SessionIds) \cup subscriptions
          /\ subscribeResult'.id \in subscriptions'
     /\ UnsubscribeReturned =>
          /\ unsubscribeResult'.size = Cardinality(subscriptions')
          /\ unsubscribeResult'.id \notin subscriptions']_vars

\* in one session an id was unsubscribed and a later subscribe call
\* returned a larger id; the returned count is the size of the registry
\* and is smaller than the counter
C39_Witness ==
  /\ subscribeResult.outcome = "ok"
  /\ subscribeResult.id = subCounter
  /\ subscribeResult.size = Cardinality(subscriptions)
  /\ subscribeResult.size < subCounter
  /\ unsubscribeResult.outcome = "ok"
  /\ unsubscribeResult.id \in Range(SessionIds)
  /\ unsubscribeResult.id \notin subscriptions
  /\ unsubscribeResult.id < subscribeResult.id

\* ------------------------------------------------------------------------
\* KV handle and JetStream manager across a disconnect: openKvBucket,
\* getJsm and disconnect of nats-client.js
\* ------------------------------------------------------------------------

\* connections opened in one run
MaxEpochs == 2

\* openKvBucket / getJsm calls awaited at the same time
MaxInFlight == 2

\* every variable the steps of this section leave alone
handleFrame ==
  <<uiVars, appVars, nextEvent, deliveries, pausedPushes, discarded, shown,
    loopStopped, flushRan, issued, streamVars, exported, subscribeResult,
    regVars, btnReqDisabled, pendingRequest, toast, rendered, payloadVars,
    connVars, keyVars>>

\* the handles of module state
Handles == [kv |-> kv, jsm |-> jsm]

\* mutant: disconnect() forgets to clear jsm
disconnectHandlesKeepJsm(h) == [h EXCEPT !.kv = "none"]

\* disconnect(): kv = null; jsm = null (normal path and error path)
disconnectHandles(h) == [kv |-> "none", jsm |-> "none"]

\* requests awaited on a connection are rejected when the connection
\* closes: the calls end in their catch blocks and install nothing
RejectPending(cs) == <<>>

\* connectToNats on no connection or a closed one: disconnect() clears the
\* state (close() of a closed connection resolves at once), wsconnect()
\* succeeds
HandlesConnect ==
  /\ NotConnected(nc)
  /\ connEpoch < MaxEpochs
  /\ nc' = "open"
  /\ connEpoch' = connEpoch + 1
  /\ DisconnectReset
  /\ DisconnectStopsWatcher
  /\ jsm' = disconnectHandles(Handles).jsm
  /\ handleCalls' = RejectPending(handleCalls)
  /\ UNCHANGED <<kvEpoch, jsmEpoch>>
  /\ UNCHANGED handleFrame

\* disconnect() up to await nc.close()
HandlesDisconnect ==
  /\ nc = "open"
  /\ nc' = "closing"
  /\ DisconnectStopsWatcher
  /\ UNCHANGED <<subCounter, subscriptions, session, kv, handleVars>>
  /\ UNCHANGED handleFrame

\* nc.close() resolves and disconnect() clears its state
HandlesCloseComplete ==
  /\ nc = "closing"
  /\ nc' = "null"
  /\ DisconnectReset
  /\ jsm' = disconnectHandles(Handles).jsm
  /\ handleCalls' = RejectPending(handleCalls)
  /\ UNCHANGED <<activeKvWatcher, watchers, connEpoch, kvEpoch, jsmEpoch>>
  /\ UNCHANGED handleFrame

\* the server closes the connection: nc stays set but isClosed(), and so
\* do kv and jsm
HandlesConnectionLost ==
  /\ nc = "open"
  /\ nc' = "closed"
  /\ handleCalls' = RejectPending(handleCalls)
  /\ UNCHANGED <<subCounter, subscriptions, session, kv, activeKvWatcher,
                 watchers, jsm, connEpoch, kvEpoch, jsmEpoch>>
  /\ UNCHANGED handleFrame

\* openKvBucket(b) up to await kvm.open(b); without a connection it
\* throws "Not Connected" and changes nothing
OpenKvBucketStarts(b) ==
  /\ ~NotConnected(nc)
  /\ Len(handleCalls) < MaxInFlight
  /\ handleCalls' = Append(handleCalls,
                           [kind |-> "kv", bucket |-> b, epoch |-> connEpoch])
  /\ UNCHANGED <<natsVars, session, kv, activeKvWatcher, watchers, jsm,
                 connEpoch, kvEpoch, jsmEpoch>>
  /\ UNCHANGED handleFrame

\* getJsm() with jsm null, up to await jetstreamManager(nc); with jsm set
\* it returns jsm and changes nothing
GetJsmStarts ==
  /\ ~NotConnected(nc)
  /\ jsm = "none"
  /\ Len(handleCalls) < MaxInFlight
  /\ handleCalls' = Append(handleCalls,
                           [kind |-> "jsm", bucket |-> "none",
                            epoch |-> connEpoch])
  /\ UNCHANGED <<natsVars, session, kv, activeKvWatcher, watchers, jsm,
                 connEpoch, kvEpoch, jsmEpoch>>
  /\ UNCHANGED handleFrame

\* kvm.open() resolves in call c: kv = the handle
OpenKvBucketResolves(c) ==
  /\ handleCalls[c].kind = "kv"
  /\ kv' = handleCalls[c].bucket
  /\ kvEpoch' = handleCalls[c].epoch
  /\ handleCalls' = RemoveAt(handleCalls, c)
  /\ UNCHANGED <<natsVars, session, activeKvWatcher, watchers, jsm,
                 connEpoch, jsmEpoch>>
  /\ UNCHANGED handleFrame

\* jetstreamManager(nc) resolves in call c: jsm = the manager
JetstreamManagerResolves(c) ==
  /\ handleCalls[c].kind = "jsm"
  /\ jsm' = "set"
  /\ jsmEpoch' = handleCalls[c].epoch
  /\ handleCalls' = RemoveAt(handleCalls, c)
  /\ UNCHANGED <<natsVars, session, kv, activeKvWatcher, watchers,
                 connEpoch, kvEpoch>>
  /\ UNCHANGED handleFrame

\* kvm.open() or jetstreamManager(nc) is rejected in call c
HandleCallFails(c) ==
  /\ handleCalls' = RemoveAt(handleCalls, c)
  /\ UNCHANGED <<natsVars, session, kv, activeKvWatcher, watchers, jsm,
                 connEpoch, kvEpoch, jsmEpoch>>
  /\ UNCHANGED handleFrame

NextHandles ==
  \/ HandlesConnect
  \/ HandlesDisconnect
  \/ HandlesCloseComplete
  \/ HandlesConnectionLost
  \/ \E b \in Buckets : OpenKvBucketStarts(b)
  \/ GetJsmStarts
  \/ \E c \in 1..Len(handleCalls) : OpenKvBucketResolves(c)
  \/ \E c \in 1..Len(handleCalls) : JetstreamManagerResolves(c)
  \/ \E c \in 1..Len(handleCalls) : HandleCallFails(c)

SpecHandles == Init /\ [][NextHandles]_vars

====
